---- MODULE Spec2Model ----
(***************************************************************************)
(* A model of the ddbb key-value store: the in-memory B-tree index         *)
(* (projects/ddbb/src/btree.rs) and the LogManager that keeps an           *)
(* operation log beside it (projects/ddbb/src/log.rs).                     *)
(*                                                                         *)
(* Keys are Rust Strings, modelled as sequences of byte codes and ordered  *)
(* as str is ordered (lexicographically by byte).  Values are i32.         *)
(* A Vec is a sequence; the code's 0-based index i is position i+1.        *)
(* A panic of the code (an index out of range, an unwrap of None) is the   *)
(* result [ok |-> FALSE] of the operator that models the panicking call.   *)
(***************************************************************************)
EXTENDS Integers, Sequences, FiniteSets, TLC

\* btree.rs:66  const B: usize = 3
B == 3

\* ------------------------------------------------------------------ bounds
\* number of distinct plain keys the callers use: "a", "b", ...
NKeys == 7
\* number of distinct plain keys of the callers that only insert
InsKeys == 10
\* number of calls made on one BTree
MaxOps == 9

\* byte code of 'a'; the callers' keys are the one-letter strings from 'a' on
CharA == 97
\* byte code of '"', which Debug formatting of a String puts around it
CharQuote == 34
\* byte code of '0', the first of the decimal digits
CharZero == 48

\* number of distinct plain keys the tests use on the BTree of create_btree
TreeKeys == 26
\* number of insert and delete calls a test makes on that BTree
TreeOps == 2
\* number of calls made on a BTree that create_btree is building
GrowOps == 3
\* number of distinct plain keys deleted from a BTree that create_btree is
\* building
GrowDelKeys == 3
\* number of insert and delete calls made on the BTree of DeepNums
DeepOps == 2
\* number of distinct plain keys the callers of a LogManager use
LogKeys == 1
\* number of insert and delete calls made on LogManagers
LogOps == 2
\* number of LogManager::new calls
MaxOpens == 3

\* the first n one-letter keys
KeysUpTo(n) == { <<CharA + i>> : i \in 0..(n - 1) }
PlainKeys == KeysUpTo(NKeys)
\* the value create_btree (btree.rs:474) pairs with a one-letter key: its
\* position in the alphabet
LetterValue(k) == k[1] - CharA + 1
\* the value test_insert_duplicate_key (btree.rs:510) inserts for a key that is
\* already stored
DupValue == 42

\* ---------------------------------------------------------------- Vec, Ord
None == <<>>
Some(v) == <<v>>

Take(s, n) == SubSeq(s, 1, n)
\* Vec::split_off(at): the tail from index at on (the Vec keeps Take(s, at))
Drop(s, n) == SubSeq(s, n + 1, Len(s))
\* Vec::insert(i, x), for i <= len
VecInsert(s, i, x) == Take(s, i) \o <<x>> \o Drop(s, i)
\* Vec::remove(i), for i < len
VecRemove(s, i) == Take(s, i) \o Drop(s, i + 1)

MinOf(a, b) == IF a < b THEN a ELSE b

\* Ord for str: lexicographic on bytes, a proper prefix is smaller
KeyLt(a, b) ==
    \E i \in 1..(MinOf(Len(a), Len(b)) + 1) :
        /\ \A j \in 1..(i - 1) : a[j] = b[j]
        /\ IF i > Len(a) THEN i <= Len(b)
           ELSE i <= Len(b) /\ a[i] < b[i]

\* Ordering of probe against key: "Less", "Equal" or "Greater"
KeyCmp(probe, key) ==
    IF probe = key THEN "Equal"
    ELSE IF KeyLt(probe, key) THEN "Less" ELSE "Greater"

\* ------------------------------------------------------------------- state
VARIABLES
    stdlib,     \* which slice::binary_search the build links (see binary_search)
    root,       \* BTree.root: None, or Some(node)
    panicked,   \* the last call on the BTree panicked: the process is gone
    last,       \* the last insert or delete call, or the search call that
                \* panicked: [op, key, value, ret]
    pre,        \* BTree.root when that call started
    nops,       \* number of insert and delete calls made so far
    hist,       \* what insert-only callers did: [keys, dup]
    files,      \* the directory: for each path, [present, data (bytes)]
    up,         \* a LogManager exists (root is its btree)
    pos,        \* the cursor of its log_file
    pc,         \* where it is in persist_data ("idle": not in it)
    todo,       \* persist_data: the kv_pairs not yet written
    tpos,       \* persist_data: the cursor of temp_log_file
    opens,      \* number of LogManager::new calls so far
    sess,       \* what the callers of this LogManager did: [fresh, shut, after]
    ended,      \* how the LogManager before this one ended
    mem,        \* the btree root of the LogManager that ended last, at its end
    oldlog      \* the bytes of the log when the running shutdown() started

\* ------------------------------------------------------------ Node helpers
\* Node::new (btree.rs:142)
NewNode == [keys |-> <<>>, values |-> <<>>, children |-> <<>>]

\* a call that panicked
Panic == [ok |-> FALSE]
OkNode(n) == [ok |-> TRUE, node |-> n]

\* slice::binary_search as the standard library of Rust 1.52 to 1.81 computes
\* it: three-way comparison at the midpoint of [left, right), returning at once
\* on Equal.
RECURSIVE BsEarlyReturn(_, _, _, _)
BsEarlyReturn(keys, key, left, right) ==
    IF left < right
    THEN LET mid == left + ((right - left) \div 2)
             cmp == KeyCmp(keys[mid + 1], key)
         IN  IF cmp = "Equal" THEN [found |-> TRUE, index |-> mid]
             ELSE IF cmp = "Less" THEN BsEarlyReturn(keys, key, mid + 1, right)
             ELSE BsEarlyReturn(keys, key, left, mid)
    ELSE [found |-> FALSE, index |-> left]

\* slice::binary_search as the standard library before 1.52 and from 1.82 on
\* computes it: the loop halves size without an early exit, then compares once.
RECURSIVE BsBranchless(_, _, _, _)
BsBranchless(keys, key, base, size) ==
    IF size > 1
    THEN LET half == size \div 2
             mid  == base + half
         IN  BsBranchless(keys, key,
                          IF KeyCmp(keys[mid + 1], key) = "Greater" THEN base ELSE mid,
                          size - half)
    ELSE LET cmp == KeyCmp(keys[base + 1], key)
         IN  IF cmp = "Equal" THEN [found |-> TRUE, index |-> base]
             ELSE [found |-> FALSE, index |-> base + (IF cmp = "Less" THEN 1 ELSE 0)]

\* self.keys.binary_search(&key): Ok(index) is [found |-> TRUE], Err(index) is
\* [found |-> FALSE].  On a sorted Vec without duplicates both library versions
\* agree; on any other Vec the result is unspecified and is what the linked
\* version computes.
binary_search(keys, key) ==
    IF Len(keys) = 0 THEN [found |-> FALSE, index |-> 0]
    ELSE IF stdlib = "early_return" THEN BsEarlyReturn(keys, key, 0, Len(keys))
    ELSE BsBranchless(keys, key, 0, Len(keys))

\* Node::is_full (btree.rs:163)
is_full(n) == Len(n.keys) >= 2 * B - 1

\* split_child with the right half taken from index B + 1 on: the entry at
\* index B is lost
split_child_lossy(self, index) ==
    IF index >= Len(self.children) THEN Panic
    ELSE
    LET c == self.children[index + 1] IN
    IF Len(c.keys) < B + 1 \/ Len(c.values) < B + 1 THEN Panic
    ELSE
    LET right == [keys     |-> Drop(c.keys, B + 1),
                  values   |-> Drop(c.values, B + 1),
                  children |-> IF c.children # <<>> THEN Drop(c.children, B) ELSE <<>>]
        left  == [keys     |-> Take(c.keys, B),
                  values   |-> Take(c.values, B),
                  children |-> IF c.children # <<>> THEN Take(c.children, B) ELSE <<>>]
    IN  OkNode([keys     |-> VecInsert(self.keys, index, c.keys[B]),
                values   |-> VecInsert(self.values, index, c.values[B]),
                children |-> VecInsert([self.children EXCEPT ![index + 1] = left],
                                       index + 1, right)])

\* Node::split_child (btree.rs:167).  split_off(B) leaves the first B keys,
\* values and children in the child: the entry at B - 1 is cloned into self
\* and stays in the child.
split_child(self, index) ==
    IF index >= Len(self.children) THEN Panic
    ELSE
    LET c == self.children[index + 1] IN
    IF Len(c.keys) < B \/ Len(c.values) < B THEN Panic
    ELSE IF c.children # <<>> /\ Len(c.children) < B THEN Panic
    ELSE IF index > Len(self.keys) \/ index > Len(self.values) THEN Panic
    ELSE
    LET split_key   == c.keys[B]
        split_value == c.values[B]
        right == [keys     |-> Drop(c.keys, B),
                  values   |-> Drop(c.values, B),
                  children |-> IF c.children # <<>> THEN Drop(c.children, B) ELSE <<>>]
        left  == [keys     |-> Take(c.keys, B),
                  values   |-> Take(c.values, B),
                  children |-> IF c.children # <<>> THEN Take(c.children, B) ELSE <<>>]
    IN  OkNode([keys     |-> VecInsert(self.keys, index, split_key),
                values   |-> VecInsert(self.values, index, split_value),
                children |-> VecInsert([self.children EXCEPT ![index + 1] = left],
                                       index + 1, right)])

RECURSIVE insert_non_full(_, _, _)
\* self with children[index] as the call on it left it (r), unless it panicked
put_child(self, index, r) ==
    IF r.ok THEN OkNode([self EXCEPT !.children[index + 1] = r.node]) ELSE Panic

\* self.children[index].insert_non_full(key, value) (btree.rs:231)
insert_into_child(self, index, key, value) ==
    IF index >= Len(self.children) THEN Panic
    ELSE put_child(self, index, insert_non_full(self.children[index + 1], key, value))

\* after split_child(index) ended with s: the descent goes right of the
\* promoted key if it is less than key (btree.rs:223-231)
insert_after_split(s, index, key, value) ==
    IF ~s.ok THEN Panic
    ELSE insert_into_child(s.node,
                           IF KeyLt(s.node.keys[index + 1], key) THEN index + 1
                           ELSE index,
                           key, value)

\* the match on the result bs of the binary search (btree.rs:200-232)
insert_at(self, key, value, bs) ==
    IF bs.found THEN OkNode(self)
    ELSE IF self.children = <<>>
    THEN IF bs.index > Len(self.values) THEN Panic
         ELSE OkNode([self EXCEPT !.keys   = VecInsert(self.keys, bs.index, key),
                                  !.values = VecInsert(self.values, bs.index, value)])
    ELSE IF bs.index >= Len(self.children) THEN Panic
    ELSE IF is_full(self.children[bs.index + 1])
    THEN insert_after_split(split_child(self, bs.index), bs.index, key, value)
    ELSE insert_into_child(self, bs.index, key, value)

\* Node::insert_non_full (btree.rs:199)
insert_non_full(self, key, value) ==
    insert_at(self, key, value, binary_search(self.keys, key))

RECURSIVE node_search(_, _)
\* the match on the result bs of the binary search (btree.rs:237-245)
search_at(self, key, bs) ==
    IF bs.found
    THEN IF bs.index >= Len(self.values) THEN Panic
         ELSE [ok |-> TRUE, ret |-> Some(self.values[bs.index + 1])]
    ELSE IF self.children = <<>> THEN [ok |-> TRUE, ret |-> None]
    ELSE IF bs.index >= Len(self.children) THEN Panic
    ELSE node_search(self.children[bs.index + 1], key)

\* Node::search (btree.rs:235): [ok, ret] with ret None or Some(value)
node_search(self, key) == search_at(self, key, binary_search(self.keys, key))

\* Node::find_predecessor (btree.rs:438): the last entry of the rightmost leaf
RECURSIVE find_predecessor(_)
find_predecessor(node) ==
    IF node.children # <<>> THEN find_predecessor(node.children[Len(node.children)])
    ELSE IF Len(node.keys) = 0 \/ Len(node.values) = 0 THEN Panic
    ELSE [ok |-> TRUE, key |-> node.keys[Len(node.keys)],
          value |-> node.values[Len(node.values)]]

\* Node::find_successor (btree.rs:453): the first entry of the leftmost leaf
RECURSIVE find_successor(_)
find_successor(node) ==
    IF node.children # <<>> THEN find_successor(node.children[1])
    ELSE IF Len(node.keys) = 0 \/ Len(node.values) = 0 THEN Panic
    ELSE [ok |-> TRUE, key |-> node.keys[1], value |-> node.values[1]]

\* Node::borrow_from_left (btree.rs:356).  The sibling's last entry is inserted
\* into self (the parent) at index - 1 and the sibling's last child at the
\* front of self.children; children[index] is not touched.
borrow_from_left(self, index) ==
    IF index < 1 \/ index - 1 >= Len(self.children) THEN Panic
    ELSE
    LET left_sibling == self.children[index] IN
    IF Len(left_sibling.keys) = 0 \/ Len(left_sibling.values) = 0 THEN Panic
    ELSE IF index - 1 > Len(self.keys) \/ index - 1 > Len(self.values) THEN Panic
    ELSE
    LET left_sibling_key   == left_sibling.keys[Len(left_sibling.keys)]
        left_sibling_value == left_sibling.values[Len(left_sibling.values)]
        popped == [keys     |-> Take(left_sibling.keys, Len(left_sibling.keys) - 1),
                   values   |-> Take(left_sibling.values, Len(left_sibling.values) - 1),
                   children |-> IF left_sibling.children # <<>>
                                THEN Take(left_sibling.children,
                                          Len(left_sibling.children) - 1)
                                ELSE <<>>]
        kids == [self.children EXCEPT ![index] = popped]
    IN  OkNode([keys     |-> VecInsert(self.keys, index - 1, left_sibling_key),
                values   |-> VecInsert(self.values, index - 1, left_sibling_value),
                children |-> IF left_sibling.children # <<>>
                             THEN <<left_sibling.children[Len(left_sibling.children)]>>
                                  \o kids
                             ELSE kids])

\* Node::borrow_from_right (btree.rs:373).  The sibling's first entry is
\* inserted into self (the parent) at index and the sibling's first child is
\* pushed onto self.children; children[index] is not touched.
borrow_from_right(self, index) ==
    IF index + 1 >= Len(self.children) THEN Panic
    ELSE
    LET right_sibling == self.children[index + 2] IN
    IF Len(right_sibling.keys) = 0 \/ Len(right_sibling.values) = 0 THEN Panic
    ELSE IF index > Len(self.keys) \/ index > Len(self.values) THEN Panic
    ELSE
    LET removed == [keys     |-> Drop(right_sibling.keys, 1),
                    values   |-> Drop(right_sibling.values, 1),
                    children |-> IF right_sibling.children # <<>>
                                 THEN Drop(right_sibling.children, 1)
                                 ELSE <<>>]
        kids == [self.children EXCEPT ![index + 2] = removed]
    IN  OkNode([keys     |-> VecInsert(self.keys, index, right_sibling.keys[1]),
                values   |-> VecInsert(self.values, index, right_sibling.values[1]),
                children |-> IF right_sibling.children # <<>>
                             THEN Append(kids, right_sibling.children[1])
                             ELSE kids])

\* Node::merge_with_left (btree.rs:389).  split_at_mut(index - 1) makes
\* left_children the first index - 1 children, so left_children[index - 1] is
\* out of range.
merge_with_left(self, index) ==
    IF index < 1 \/ index - 1 >= Len(self.keys) \/ index - 1 >= Len(self.values)
    THEN Panic
    ELSE IF index - 1 > Len(self.children) THEN Panic
    ELSE
    LET keys1  == VecRemove(self.keys, index - 1)
        vals1  == VecRemove(self.values, index - 1)
        left_children  == Take(self.children, index - 1)
        right_children == Drop(self.children, index - 1)
    IN  IF index - 1 >= Len(left_children) \/ Len(right_children) = 0 THEN Panic
        ELSE
        LET left_sibling == left_children[index]
            current_node == right_children[1]
            merged == [keys     |-> Append(left_sibling.keys, self.keys[index])
                                        \o current_node.keys,
                       values   |-> Append(left_sibling.values, self.values[index])
                                        \o current_node.values,
                       children |-> left_sibling.children \o current_node.children]
        IN  OkNode([keys     |-> keys1,
                    values   |-> vals1,
                    children |-> [left_children EXCEPT ![index] = merged]
                                 \o <<NewNode>> \o Drop(right_children, 1)])

\* Node::merge_with_right (btree.rs:415).  The parent entry is removed and
\* pushed back onto self; split_at_mut(index) makes left_children the first
\* index children, so left_children[index] is out of range.
merge_with_right(self, index) ==
    IF index >= Len(self.keys) \/ index >= Len(self.values) THEN Panic
    ELSE IF index > Len(self.children) THEN Panic
    ELSE
    LET keys1 == Append(VecRemove(self.keys, index), self.keys[index + 1])
        vals1 == Append(VecRemove(self.values, index), self.values[index + 1])
        left_children  == Take(self.children, index)
        right_children == Drop(self.children, index)
    IN  IF index >= Len(left_children) \/ Len(right_children) < 2 THEN Panic
        ELSE
        LET current_node  == left_children[index + 1]
            right_sibling == right_children[2]
            merged == [keys     |-> current_node.keys \o right_sibling.keys,
                       values   |-> current_node.values \o right_sibling.values,
                       children |-> current_node.children \o right_sibling.children]
        IN  OkNode([keys     |-> keys1,
                    values   |-> vals1,
                    children |-> [left_children EXCEPT ![index + 1] = merged]
                                 \o <<right_children[1], NewNode>>
                                 \o Drop(right_children, 2)])

\* a delete that returned: the node after it and the Option<V> it returned
OkDel(n, r) == [ok |-> TRUE, node |-> n, ret |-> r]

\* Case 3b of Node::delete (btree.rs:328): what is done to self before the
\* descent into children[index] when that child has fewer than B keys
ensure_child(self, index) ==
    IF ~(Len(self.children[index + 1].keys) < B) THEN OkNode(self)
    ELSE IF index > 0 /\ Len(self.children[index].keys) >= B
         THEN borrow_from_left(self, index)
    ELSE IF index < Len(self.children) - 1
            /\ Len(self.children[index + 2].keys) >= B
         THEN borrow_from_right(self, index)
    ELSE IF index > 0 THEN merge_with_left(self, index)
    ELSE merge_with_right(self, index)

RECURSIVE node_delete(_, _)
\* self with children[index] as the delete on it left it (r), and what that
\* delete returned
put_deleted(self, index, r) ==
    IF r.ok THEN OkDel([self EXCEPT !.children[index + 1] = r.node], r.ret)
    ELSE Panic

\* self.children[index].delete(key) (btree.rs:276, 286, 315, 348)
delete_in_child(self, index, key) ==
    IF index >= Len(self.children) THEN Panic
    ELSE put_deleted(self, index, node_delete(self.children[index + 1], key))

\* Cases 2a, 2b (btree.rs:273-276, 283-286): the entry e found in
\* children[child] replaces the entry at index, then e.key is deleted from
\* that child and what that delete returns is returned
replace_and_delete(self, index, child, e) ==
    IF ~e.ok \/ index >= Len(self.values) THEN Panic
    ELSE delete_in_child([self EXCEPT !.keys[index + 1]   = e.key,
                                      !.values[index + 1] = e.value],
                         child, e.key)

\* Cases 2c, 3b, 3c: after a borrow or merge ended with m, the descent
delete_after(m, index, key) ==
    IF ~m.ok THEN Panic ELSE delete_in_child(m.node, index, key)

\* the match on the result bs of the binary search (btree.rs:249-351)
delete_at(self, key, bs) ==
    LET index == bs.index IN
    IF bs.found
    THEN IF self.children = <<>>
         THEN \* Case 1
              IF index >= Len(self.values) THEN Panic
              ELSE OkDel([self EXCEPT !.keys   = VecRemove(self.keys, index),
                                      !.values = VecRemove(self.values, index)],
                         Some(self.values[index + 1]))
         ELSE IF index >= Len(self.children) THEN Panic
         ELSE IF Len(self.children[index + 1].keys) >= B
         THEN \* Case 2a
              replace_and_delete(self, index, index,
                                 find_predecessor(self.children[index + 1]))
         ELSE IF index + 1 >= Len(self.children) THEN Panic
         ELSE IF Len(self.children[index + 2].keys) >= B
         THEN \* Case 2b
              replace_and_delete(self, index, index + 1,
                                 find_successor(self.children[index + 2]))
         ELSE \* Case 2c
              delete_after(merge_with_left(self, index + 1), index, key)
    ELSE IF self.children = <<>>
         THEN \* Case 3a
              OkDel(self, None)
         ELSE IF index >= Len(self.children) THEN Panic
         ELSE \* Case 3b, 3c
              delete_after(ensure_child(self, index), index, key)

\* Node::delete (btree.rs:248)
node_delete(self, key) == delete_at(self, key, binary_search(self.keys, key))

\* ------------------------------------------------------------------- BTree
\* self.root = Some(Box::new(node)) with the node r.node, unless the call that
\* made it panicked (btree.rs:97-100)
as_root(r) == IF r.ok THEN [ok |-> TRUE, root |-> Some(r.node)] ELSE Panic

\* the insert into the new root once its split_child(0) ended with s
\* (btree.rs:96-98)
insert_under(s, key, value) ==
    IF ~s.ok THEN Panic ELSE as_root(insert_non_full(s.node, key, value))

\* BTree::insert (btree.rs:84): [ok, root]
BTreeInsert(rt, key, value) ==
    IF rt # None
    THEN IF is_full(rt[1])
         THEN insert_under(split_child([NewNode EXCEPT !.children = <<rt[1]>>], 0),
                           key, value)
         ELSE as_root(insert_non_full(rt[1], key, value))
    ELSE [ok |-> TRUE,
          root |-> Some([NewNode EXCEPT !.keys = <<key>>, !.values = <<value>>])]

\* the root after Node::delete ended with d (btree.rs:115-118): a root
\* without keys that has children gives way to its first child
collapse(d) ==
    IF ~d.ok THEN Panic
    ELSE IF d.node.keys = <<>> /\ d.node.children # <<>>
    THEN [ok |-> TRUE, root |-> Some(d.node.children[1]), ret |-> d.ret]
    ELSE [ok |-> TRUE, root |-> Some(d.node), ret |-> d.ret]

\* BTree::delete (btree.rs:112): [ok, root, ret]
BTreeDelete(rt, key) ==
    IF rt # None THEN collapse(node_delete(rt[1], key))
    ELSE [ok |-> TRUE, root |-> None, ret |-> None]

\* BTree::search (btree.rs:124): [ok, ret]
BTreeSearch(rt, key) ==
    IF rt = None THEN [ok |-> TRUE, ret |-> None] ELSE node_search(rt[1], key)

\* ------------------------------------------------- the Index under its callers
StdLibs == {"early_return", "branchless"}

ivars == <<stdlib, root, panicked, last, pre, nops, hist>>
lvars == <<files, up, pos, pc, todo, tpos, opens, sess, ended, mem, oldlog>>
vars == <<ivars, lvars>>

\* log.rs:11 LOG_FILE, log.rs:113 temp_log_path, log.rs:134 dummy_file_path
LOG_FILE == "log.txt"
temp_log_path == "temp_log.txt"
dummy_file_path == "dummy.txt"
Paths == {LOG_FILE, temp_log_path, dummy_file_path}
NoFile == [present |-> FALSE, data |-> <<>>]

\* BTree::new (btree.rs:80), in a directory that holds the files fs
Start(fs) ==
    /\ stdlib \in StdLibs
    /\ root = None
    /\ panicked = FALSE
    /\ last = [op |-> "new", key |-> <<>>, value |-> 0, ret |-> None]
    /\ pre = None
    /\ nops = 0
    /\ hist = [keys |-> {}, dup |-> FALSE]
    /\ files = fs
    /\ up = FALSE
    /\ pos = 0
    /\ pc = "idle"
    /\ todo = <<>>
    /\ tpos = 0
    /\ opens = 0
    /\ sess = [fresh |-> FALSE, shut |-> 0, after |-> FALSE]
    /\ ended = [any |-> FALSE, fresh |-> FALSE, shut |-> 0, after |-> FALSE,
                pc |-> "idle", panic |-> FALSE]
    /\ mem = None
    /\ oldlog = <<>>

Init == Start([p \in Paths |-> NoFile])

CanCall == ~panicked

\* a call that ended with r: it returned with the BTree r.root, or it panicked
Returned(r) ==
    /\ panicked' = ~r.ok
    /\ root' = IF r.ok THEN r.root ELSE root
    /\ pre' = root
    /\ UNCHANGED stdlib

\* a call btree.insert(key, value)
Insert(key, value) ==
    /\ CanCall
    /\ Returned(BTreeInsert(root, key, value))
    /\ last' = [op |-> "insert", key |-> key, value |-> value, ret |-> None]

\* a delete that ended with r: the caller has r.ret in hand
Deleted(r, key) ==
    /\ Returned(r)
    /\ last' = [op |-> "delete", key |-> key, value |-> 0,
                ret |-> IF r.ok THEN r.ret ELSE None]

\* a call btree.delete(&key)
Delete(key) == CanCall /\ Deleted(BTreeDelete(root, key), key)

\* a search that ended with r: it takes &self and changes nothing, unless it
\* panics
Searched(r, key) ==
    /\ panicked' = ~r.ok
    /\ last' = IF r.ok THEN last
               ELSE [op |-> "search", key |-> key, value |-> 0, ret |-> None]
    /\ pre' = IF r.ok THEN pre ELSE root
    /\ UNCHANGED <<stdlib, root>>

\* a call btree.search(&key); what it returns is BTreeSearch(root, key).ret
Search(key) == CanCall /\ Searched(BTreeSearch(root, key), key)

\* one more of the at most MaxOps calls that take &mut self
Counted == nops < MaxOps /\ nops' = nops + 1 /\ UNCHANGED <<hist, lvars>>

\* callers that make at most MaxOps insert and delete calls on one BTree, and
\* search calls at any time.  As the tests do, they insert a key with its
\* letter value, and a key they find stored also with DupValue.
Next ==
    \/ \E k \in PlainKeys : Insert(k, LetterValue(k)) /\ Counted
    \/ \E k \in PlainKeys :
          BTreeSearch(root, k) # [ok |-> TRUE, ret |-> None]
          /\ Insert(k, DupValue) /\ Counted
    \/ \E k \in PlainKeys : Delete(k) /\ Counted
    \/ \E k \in PlainKeys : Search(k) /\ UNCHANGED <<nops, hist, lvars>>

Spec == Init /\ [][Next]_vars

\* callers that only insert, as create_btree does, in any order and any number
\* of times; hist.keys are the keys they inserted and hist.dup is whether they
\* inserted some key twice
InsNext ==
    /\ UNCHANGED <<nops, lvars>>
    /\ \E k \in KeysUpTo(InsKeys) :
          /\ Insert(k, LetterValue(k))
          /\ hist' = [keys |-> hist.keys \cup {k}, dup |-> hist.dup \/ k \in hist.keys]

SpecIns == Init /\ [][InsNext]_vars

\* ------------------------------------------------- the tree of the tests
\* the keys create_btree inserts, in its order (btree.rs:474): g m p x a c d f
\* i j k l n o r s t u v y z; their values (btree.rs:475) are LetterValue
TestKeys ==
    [i \in 1..21 |->
        <<CharA + <<6, 12, 15, 23, 0, 2, 3, 5, 8, 9, 10, 11, 13, 14, 17, 18, 19,
                    20, 21, 24, 25>>[i]>>]

RECURSIVE InsertFrom(_, _, _)
\* the keys from the i-th on, once the insert before them ended with r
insert_rest(ks, i, r) == IF r.ok THEN InsertFrom(ks, i, r.root) ELSE Panic

\* the loop of create_btree (btree.rs:477-479) from the i-th key on, on the
\* BTree rt: [ok, root]
InsertFrom(ks, i, rt) ==
    IF i > Len(ks) THEN [ok |-> TRUE, root |-> rt]
    ELSE insert_rest(ks, i + 1, BTreeInsert(rt, ks[i], LetterValue(ks[i])))

\* create_btree (btree.rs:471): [ok, root]
create_btree == InsertFrom(TestKeys, 1, None)

\* a caller holds the BTree that the inserts which ended with r built
TreeStart(r) ==
    /\ stdlib \in StdLibs
    /\ r.ok
    /\ root = r.root
    /\ panicked = FALSE
    /\ last = [op |-> "new", key |-> <<>>, value |-> 0, ret |-> None]
    /\ pre = None
    /\ nops = 0
    /\ hist = [keys |-> {}, dup |-> FALSE]
    /\ files = [p \in Paths |-> NoFile]
    /\ up = FALSE
    /\ pos = 0
    /\ pc = "idle"
    /\ todo = <<>>
    /\ tpos = 0
    /\ opens = 0
    /\ sess = [fresh |-> FALSE, shut |-> 0, after |-> FALSE]
    /\ ended = [any |-> FALSE, fresh |-> FALSE, shut |-> 0, after |-> FALSE,
                pc |-> "idle", panic |-> FALSE]
    /\ mem = None
    /\ oldlog = <<>>

\* a test starts with the BTree of create_btree
TreeInit == TreeStart(create_btree)

\* one more of the at most TreeOps calls a test makes on that BTree
TreeCounted == nops < TreeOps /\ nops' = nops + 1 /\ UNCHANGED <<hist, lvars>>

\* the tests insert and delete keys that are stored and keys that are not
\* (btree.rs:510-524), and search at any time
TreeNext ==
    \/ \E k \in KeysUpTo(TreeKeys) : Insert(k, LetterValue(k)) /\ TreeCounted
    \/ \E k \in KeysUpTo(TreeKeys) :
          BTreeSearch(root, k) # [ok |-> TRUE, ret |-> None]
          /\ Insert(k, DupValue) /\ TreeCounted
    \/ \E k \in KeysUpTo(TreeKeys) : Delete(k) /\ TreeCounted
    \/ \E k \in KeysUpTo(TreeKeys) :
          Search(k) /\ UNCHANGED <<nops, hist, lvars>>

SpecTree == TreeInit /\ [][TreeNext]_vars

\* the BTree inside create_btree, after the first n of its inserts
GrowInit == \E n \in 0..Len(TestKeys) : TreeStart(InsertFrom(Take(TestKeys, n), 1, None))

\* one more of the at most GrowOps - 1 deletes that come before the insert
GrowDeleted == nops < GrowOps - 1 /\ nops' = nops + 1 /\ UNCHANGED <<hist, lvars>>

\* the insert, which is the last of the at most GrowOps calls
GrowInserted == nops < GrowOps /\ nops' = GrowOps /\ UNCHANGED <<hist, lvars>>

\* the next calls on the BTree that create_btree is building: deletes of the
\* first GrowDelKeys keys, and then an insert of any key, or of a stored key
\* with DupValue
GrowNext ==
    \/ \E k \in KeysUpTo(TreeKeys) : Insert(k, LetterValue(k)) /\ GrowInserted
    \/ \E k \in KeysUpTo(TreeKeys) :
          BTreeSearch(root, k) # [ok |-> TRUE, ret |-> None]
          /\ Insert(k, DupValue) /\ GrowInserted
    \/ \E k \in KeysUpTo(GrowDelKeys) : Delete(k) /\ GrowDeleted

SpecGrow == GrowInit /\ [][GrowNext]_vars

\* ------------------------------------------- a tree with four subtrees
\* the key of the number n: its three decimal digits, so that the keys are in
\* the order of the numbers; its value is n
NumKey(n) ==
    <<CharZero + (n \div 100), CharZero + ((n \div 10) % 10), CharZero + (n % 10)>>

\* numbers whose keys, inserted in this order, build a BTree of three levels
\* whose root [010, 042, 090] has four children with 3, 2, 2 and 3 keys:
\* 10, 20, .. 190, then 1, 2, 3, 41, 42, 43, 44, then 4, .. 9, then 200, 210
DeepNums ==
    [i \in 1..19 |-> 10 * i] \o <<1, 2, 3, 41, 42, 43, 44>>
        \o [i \in 1..6 |-> i + 3] \o <<200, 210>>
DeepKeys == { NumKey(DeepNums[i]) : i \in 1..Len(DeepNums) }

\* the value inserted with a key of DeepKeys
NumValue(k) ==
    (k[1] - CharZero) * 100 + (k[2] - CharZero) * 10 + (k[3] - CharZero)

RECURSIVE InsertNums(_, _, _)
\* the numbers from the i-th on, once the insert before them ended with r
insert_nums_rest(ns, i, r) == IF r.ok THEN InsertNums(ns, i, r.root) ELSE Panic

\* btree.insert(key, value) for the numbers of ns from the i-th on, on the
\* BTree rt: [ok, root]
InsertNums(ns, i, rt) ==
    IF i > Len(ns) THEN [ok |-> TRUE, root |-> rt]
    ELSE insert_nums_rest(ns, i + 1, BTreeInsert(rt, NumKey(ns[i]), ns[i]))

\* a caller holds the BTree that the inserts of DeepNums built
DeepInit == TreeStart(InsertNums(DeepNums, 1, None))

\* one more of the at most DeepOps calls made on that BTree
DeepCounted == nops < DeepOps /\ nops' = nops + 1 /\ UNCHANGED <<hist, lvars>>

\* the next calls on that BTree: an insert or a delete of one of its keys, an
\* insert of a stored key with DupValue, and a search at any time
DeepNext ==
    \/ \E k \in DeepKeys : Insert(k, NumValue(k)) /\ DeepCounted
    \/ \E k \in DeepKeys :
          BTreeSearch(root, k) # [ok |-> TRUE, ret |-> None]
          /\ Insert(k, DupValue) /\ DeepCounted
    \/ \E k \in DeepKeys : Delete(k) /\ DeepCounted
    \/ \E k \in DeepKeys : Search(k) /\ UNCHANGED <<nops, hist, lvars>>

SpecDeep == DeepInit /\ [][DeepNext]_vars

\* ------------------------------------------------- shape of a tree (spec 3)
\* the entries <<key, value>> of a subtree in the order of the in-order
\* traversal: child 0, entry 0, child 1, entry 1, ..., last child
RECURSIVE InOrderFrom(_, _)
InOrderFrom(node, i) ==
    IF i > Len(node.keys) /\ i > Len(node.children) THEN <<>>
    ELSE (IF i <= Len(node.children) THEN InOrderFrom(node.children[i], 1) ELSE <<>>)
         \o (IF i <= Len(node.keys) /\ i <= Len(node.values)
             THEN << <<node.keys[i], node.values[i]>> >> ELSE <<>>)
         \o InOrderFrom(node, i + 1)

\* BTree::traverse, which persist_data calls (log.rs:121)
traverse(rt) == IF rt = None THEN <<>> ELSE InOrderFrom(rt[1], 1)

\* the keys stored in a subtree, each as often as it is stored
SubtreeKeys(node) == LET es == InOrderFrom(node, 1) IN [i \in 1..Len(es) |-> es[i][1]]

\* how many entries of the tree hold key
KeyCount(rt, key) ==
    IF rt = None THEN 0
    ELSE LET ks == SubtreeKeys(rt[1]) IN Cardinality({i \in 1..Len(ks) : ks[i] = key})

\* the nodes of a subtree
RECURSIVE NodesOf(_)
NodesOf(node) ==
    {node} \cup UNION { NodesOf(node.children[i]) : i \in 1..Len(node.children) }

\* the depths at which the leaves of a subtree lie
RECURSIVE LeafDepths(_, _)
LeafDepths(node, d) ==
    IF node.children = <<>> THEN {d}
    ELSE UNION { LeafDepths(node.children[i], d + 1) : i \in 1..Len(node.children) }

OrderOK(n) == \A i \in 1..(Len(n.keys) - 1) : KeyLt(n.keys[i], n.keys[i + 1])

NodeShapeOK(n) ==
    /\ Len(n.values) = Len(n.keys)
    /\ n.children = <<>> \/ Len(n.children) = Len(n.keys) + 1

NavigationOK(n) ==
    \A i \in 1..Len(n.children) :
        LET ks == SubtreeKeys(n.children[i]) IN
        \A j \in 1..Len(ks) :
            /\ (i - 1 >= 1 /\ i - 1 <= Len(n.keys)) => KeyLt(n.keys[i - 1], ks[j])
            /\ i <= Len(n.keys) => KeyLt(ks[j], n.keys[i])

UniqueOK(node) ==
    LET ks == SubtreeKeys(node) IN \A i, j \in 1..Len(ks) : ks[i] = ks[j] => i = j

\* all shape invariants of spec section 3 on a tree
WellFormed(rt) ==
    rt = None \/
    /\ \A n \in NodesOf(rt[1]) : OrderOK(n) /\ NodeShapeOK(n) /\ NavigationOK(n)
    /\ \A n \in NodesOf(rt[1]) \ {rt[1]} : Len(n.keys) >= B - 1 /\ Len(n.keys) <= 2 * B - 1
    /\ Len(rt[1].keys) <= 2 * B - 1
    /\ Cardinality(LeafDepths(rt[1], 0)) = 1
    /\ UniqueOK(rt[1])

\* ------------------------------------------------------ text of the log
\* the bytes of the ASCII characters the log format uses
CharNL == 10
CharCR == 13
CharSpace == 32
CharPlus == 43
CharMinus == 45
CharBackslash == 92
\* "INSERT" and "DELETE" (log.rs:52, 57, 72, 85)
TokINSERT == <<73, 78, 83, 69, 82, 84>>
TokDELETE == <<68, 69, 76, 69, 84, 69>>

\* char::is_whitespace of the character with code c, which
\* str::split_whitespace splits at: the White_Space characters
IsSpace(c) ==
    \/ c \in {9, 10, 11, 12, 13, 32, 133, 160, 5760, 8232, 8233, 8239, 8287, 12288}
    \/ (c >= 8192 /\ c <= 8202)

\* The text of a String and of a line of the log is UTF-8 (str::from_utf8).
\* t[i] is a continuation byte 0x80..0xBF
IsCont(t, i) == i <= Len(t) /\ t[i] >= 128 /\ t[i] <= 191
\* the number of bytes of the character that starts at t[i], 0 when the bytes
\* there are not a character: one byte below 0x80; a lead byte 0xC2..0xDF and
\* one continuation byte; 0xE0..0xEF and two (no overlong form after 0xE0, no
\* surrogate after 0xED); 0xF0..0xF4 and three (no overlong form after 0xF0,
\* nothing above U+10FFFF after 0xF4)
Utf8Width(t, i) ==
    IF t[i] < 128 THEN 1
    ELSE IF t[i] >= 194 /\ t[i] <= 223
    THEN (IF IsCont(t, i + 1) THEN 2 ELSE 0)
    ELSE IF t[i] >= 224 /\ t[i] <= 239
    THEN (IF /\ IsCont(t, i + 1) /\ IsCont(t, i + 2)
             /\ (t[i] = 224 => t[i + 1] >= 160)
             /\ (t[i] = 237 => t[i + 1] <= 159)
          THEN 3 ELSE 0)
    ELSE IF t[i] >= 240 /\ t[i] <= 244
    THEN (IF /\ IsCont(t, i + 1) /\ IsCont(t, i + 2) /\ IsCont(t, i + 3)
             /\ (t[i] = 240 => t[i + 1] >= 144)
             /\ (t[i] = 244 => t[i + 1] <= 143)
          THEN 4 ELSE 0)
    ELSE 0
\* the code of the character of w bytes that starts at t[i]
Utf8Code(t, i, w) ==
    CASE w = 1 -> t[i]
      [] w = 2 -> (t[i] - 192) * 64 + (t[i + 1] - 128)
      [] w = 3 -> (t[i] - 224) * 4096 + (t[i + 1] - 128) * 64 + (t[i + 2] - 128)
      [] w = 4 -> (t[i] - 240) * 262144 + (t[i + 1] - 128) * 4096
                  + (t[i + 2] - 128) * 64 + (t[i + 3] - 128)
\* the bytes of the character with code c
Utf8(c) ==
    IF c < 128 THEN <<c>>
    ELSE IF c < 2048 THEN <<192 + (c \div 64), 128 + (c % 64)>>
    ELSE IF c < 65536
    THEN <<224 + (c \div 4096), 128 + ((c \div 64) % 64), 128 + (c % 64)>>
    ELSE <<240 + (c \div 262144), 128 + ((c \div 4096) % 64),
           128 + ((c \div 64) % 64), 128 + (c % 64)>>
\* the bytes from t[i] on are whole characters
RECURSIVE Utf8From(_, _)
\* the bytes after the character of w bytes at t[i] are whole characters
Utf8After(t, i, w) == w > 0 /\ Utf8From(t, i + w)
Utf8From(t, i) ==
    \/ i > Len(t)
    \/ IF t[i] < 128 THEN Utf8From(t, i + 1) ELSE Utf8After(t, i, Utf8Width(t, i))
\* str::from_utf8(t).is_ok()
ValidUtf8(t) == (\A i \in 1..Len(t) : t[i] < 128) \/ Utf8From(t, 1)

\* Display for String ({} of a key): the string itself
DisplayKey(k) == k

\* Debug for String ({:?} of a key, log.rs:57): the string between double
\* quotes, each character written as char::escape_debug writes it inside a
\* string: NUL, tab, line feed and carriage return as a backslash and '0', 't',
\* 'n', 'r'; a double quote and a backslash after a backslash (a single quote
\* is left alone); a Grapheme_Extend character and any other character that
\* is not printable as \u{h..h}, its code in lower-case hexadecimal without
\* leading zeros; a printable character as itself.
CharLowerT == 116
CharLowerN == 110
CharLowerR == 114
CharLowerU == 117
CharLBrace == 123
CharRBrace == 125
\* one lower-case hexadecimal digit, and fmt::LowerHex of a character code
HexDigit(d) == IF d < 10 THEN CharZero + d ELSE CharA + (d - 10)
RECURSIVE LowerHex(_)
LowerHex(n) == IF n < 16 THEN <<HexDigit(n)>>
               ELSE Append(LowerHex(n \div 16), HexDigit(n % 16))
\* c lies in one of the ranges <<first, last>> of rs
InRanges(c, rs) == \E r \in rs : c >= r[1] /\ c <= r[2]
\* Whether {:?} escapes a character from U+0080 on is decided by two tables of
\* the standard library the program is built with, char::is_grapheme_extended
\* and core::unicode::printable, which follow the Unicode version of that
\* library; the repository names no toolchain.  The tables of Unicode 14.0 and
\* of Unicode 17.0 agree on every character outside TableDependentRanges.
\* char::is_grapheme_extended: the nonspacing and enclosing marks and the
\* Other_Grapheme_Extend characters that both versions class so
GraphemeExtendRanges ==
    { <<768, 879>>, <<1155, 1161>>, <<1425, 1469>>, <<1471, 1471>>, <<1473, 1474>>,
      <<1476, 1477>>, <<1479, 1479>>, <<1552, 1562>>, <<1611, 1631>>, <<1648, 1648>>,
      <<1750, 1756>>, <<1759, 1764>>, <<1767, 1768>>, <<1770, 1773>>, <<1809, 1809>>,
      <<1840, 1866>>, <<1958, 1968>>, <<2027, 2035>>, <<2045, 2045>>, <<2070, 2073>>,
      <<2075, 2083>>, <<2085, 2087>>, <<2089, 2093>>, <<2137, 2139>>, <<2200, 2207>>,
      <<2250, 2273>>, <<2275, 2306>>, <<2362, 2362>>, <<2364, 2364>>, <<2369, 2376>>,
      <<2381, 2381>>, <<2385, 2391>>, <<2402, 2403>>, <<2433, 2433>>, <<2492, 2492>>,
      <<2494, 2494>>, <<2497, 2500>>, <<2509, 2509>>, <<2519, 2519>>, <<2530, 2531>>,
      <<2558, 2558>>, <<2561, 2562>>, <<2620, 2620>>, <<2625, 2626>>, <<2631, 2632>>,
      <<2635, 2637>>, <<2641, 2641>>, <<2672, 2673>>, <<2677, 2677>>, <<2689, 2690>>,
      <<2748, 2748>>, <<2753, 2757>>, <<2759, 2760>>, <<2765, 2765>>, <<2786, 2787>>,
      <<2810, 2815>>, <<2817, 2817>>, <<2876, 2876>>, <<2878, 2879>>, <<2881, 2884>>,
      <<2893, 2893>>, <<2901, 2903>>, <<2914, 2915>>, <<2946, 2946>>, <<3006, 3006>>,
      <<3008, 3008>>, <<3021, 3021>>, <<3031, 3031>>, <<3072, 3072>>, <<3076, 3076>>,
      <<3132, 3132>>, <<3134, 3136>>, <<3142, 3144>>, <<3146, 3149>>, <<3157, 3158>>,
      <<3170, 3171>>, <<3201, 3201>>, <<3260, 3260>>, <<3263, 3263>>, <<3266, 3266>>,
      <<3270, 3270>>, <<3276, 3277>>, <<3285, 3286>>, <<3298, 3299>>, <<3328, 3329>>,
      <<3387, 3388>>, <<3390, 3390>>, <<3393, 3396>>, <<3405, 3405>>, <<3415, 3415>>,
      <<3426, 3427>>, <<3457, 3457>>, <<3530, 3530>>, <<3535, 3535>>, <<3538, 3540>>,
      <<3542, 3542>>, <<3551, 3551>>, <<3633, 3633>>, <<3636, 3642>>, <<3655, 3662>>,
      <<3761, 3761>>, <<3764, 3772>>, <<3784, 3789>>, <<3864, 3865>>, <<3893, 3893>>,
      <<3895, 3895>>, <<3897, 3897>>, <<3953, 3966>>, <<3968, 3972>>, <<3974, 3975>>,
      <<3981, 3991>>, <<3993, 4028>>, <<4038, 4038>>, <<4141, 4144>>, <<4146, 4151>>,
      <<4153, 4154>>, <<4157, 4158>>, <<4184, 4185>>, <<4190, 4192>>, <<4209, 4212>>,
      <<4226, 4226>>, <<4229, 4230>>, <<4237, 4237>>, <<4253, 4253>>, <<4957, 4959>>,
      <<5906, 5908>>, <<5938, 5939>>, <<5970, 5971>>, <<6002, 6003>>, <<6068, 6069>>,
      <<6071, 6077>>, <<6086, 6086>>, <<6089, 6099>>, <<6109, 6109>>, <<6155, 6157>>,
      <<6159, 6159>>, <<6277, 6278>>, <<6313, 6313>>, <<6432, 6434>>, <<6439, 6440>>,
      <<6450, 6450>>, <<6457, 6459>>, <<6679, 6680>>, <<6683, 6683>>, <<6742, 6742>>,
      <<6744, 6750>>, <<6752, 6752>>, <<6754, 6754>>, <<6757, 6764>>, <<6771, 6780>>,
      <<6783, 6783>>, <<6832, 6862>>, <<6912, 6915>>, <<6964, 6970>>, <<6972, 6972>>,
      <<6978, 6978>>, <<7019, 7027>>, <<7040, 7041>>, <<7074, 7077>>, <<7080, 7081>>,
      <<7083, 7085>>, <<7142, 7142>>, <<7144, 7145>>, <<7149, 7149>>, <<7151, 7153>>,
      <<7212, 7219>>, <<7222, 7223>>, <<7376, 7378>>, <<7380, 7392>>, <<7394, 7400>>,
      <<7405, 7405>>, <<7412, 7412>>, <<7416, 7417>>, <<7616, 7679>>, <<8204, 8204>>,
      <<8400, 8432>>, <<11503, 11505>>, <<11647, 11647>>, <<11744, 11775>>, <<12330, 12335>>,
      <<12441, 12442>>, <<42607, 42610>>, <<42612, 42621>>, <<42654, 42655>>, <<42736, 42737>>,
      <<43010, 43010>>, <<43014, 43014>>, <<43019, 43019>>, <<43045, 43046>>, <<43052, 43052>>,
      <<43204, 43205>>, <<43232, 43249>>, <<43263, 43263>>, <<43302, 43309>>, <<43335, 43345>>,
      <<43392, 43394>>, <<43443, 43443>>, <<43446, 43449>>, <<43452, 43453>>, <<43493, 43493>>,
      <<43561, 43566>>, <<43569, 43570>>, <<43573, 43574>>, <<43587, 43587>>, <<43596, 43596>>,
      <<43644, 43644>>, <<43696, 43696>>, <<43698, 43700>>, <<43703, 43704>>, <<43710, 43711>>,
      <<43713, 43713>>, <<43756, 43757>>, <<43766, 43766>>, <<44005, 44005>>, <<44008, 44008>>,
      <<44013, 44013>>, <<64286, 64286>>, <<65024, 65039>>, <<65056, 65071>>, <<65438, 65439>>,
      <<66045, 66045>>, <<66272, 66272>>, <<66422, 66426>>, <<68097, 68099>>, <<68101, 68102>>,
      <<68108, 68111>>, <<68152, 68154>>, <<68159, 68159>>, <<68325, 68326>>, <<68900, 68903>>,
      <<69291, 69292>>, <<69446, 69456>>, <<69506, 69509>>, <<69633, 69633>>, <<69688, 69702>>,
      <<69744, 69744>>, <<69747, 69748>>, <<69759, 69761>>, <<69811, 69814>>, <<69817, 69818>>,
      <<69826, 69826>>, <<69888, 69890>>, <<69927, 69931>>, <<69933, 69940>>, <<70003, 70003>>,
      <<70016, 70017>>, <<70070, 70078>>, <<70089, 70092>>, <<70095, 70095>>, <<70191, 70193>>,
      <<70196, 70196>>, <<70198, 70199>>, <<70206, 70206>>, <<70367, 70367>>, <<70371, 70378>>,
      <<70400, 70401>>, <<70459, 70460>>, <<70462, 70462>>, <<70464, 70464>>, <<70487, 70487>>,
      <<70502, 70508>>, <<70512, 70516>>, <<70712, 70719>>, <<70722, 70724>>, <<70726, 70726>>,
      <<70750, 70750>>, <<70832, 70832>>, <<70835, 70840>>, <<70842, 70842>>, <<70845, 70845>>,
      <<70847, 70848>>, <<70850, 70851>>, <<71087, 71087>>, <<71090, 71093>>, <<71100, 71101>>,
      <<71103, 71104>>, <<71132, 71133>>, <<71219, 71226>>, <<71229, 71229>>, <<71231, 71232>>,
      <<71339, 71339>>, <<71341, 71341>>, <<71344, 71349>>, <<71351, 71351>>, <<71453, 71453>>,
      <<71455, 71455>>, <<71458, 71461>>, <<71463, 71467>>, <<71727, 71735>>, <<71737, 71738>>,
      <<71984, 71984>>, <<71995, 71996>>, <<71998, 71998>>, <<72003, 72003>>, <<72148, 72151>>,
      <<72154, 72155>>, <<72160, 72160>>, <<72193, 72202>>, <<72243, 72248>>, <<72251, 72254>>,
      <<72263, 72263>>, <<72273, 72278>>, <<72281, 72283>>, <<72330, 72342>>, <<72344, 72345>>,
      <<72752, 72758>>, <<72760, 72765>>, <<72767, 72767>>, <<72850, 72871>>, <<72874, 72880>>,
      <<72882, 72883>>, <<72885, 72886>>, <<73009, 73014>>, <<73018, 73018>>, <<73020, 73021>>,
      <<73023, 73029>>, <<73031, 73031>>, <<73104, 73105>>, <<73109, 73109>>, <<73111, 73111>>,
      <<73459, 73460>>, <<92912, 92916>>, <<92976, 92982>>, <<94031, 94031>>, <<94095, 94098>>,
      <<94180, 94180>>, <<113821, 113822>>, <<118528, 118573>>, <<118576, 118598>>, <<119141, 119141>>,
      <<119143, 119145>>, <<119150, 119154>>, <<119163, 119170>>, <<119173, 119179>>, <<119210, 119213>>,
      <<119362, 119364>>, <<121344, 121398>>, <<121403, 121452>>, <<121461, 121461>>, <<121476, 121476>>,
      <<121499, 121503>>, <<121505, 121519>>, <<122880, 122886>>, <<122888, 122904>>, <<122907, 122913>>,
      <<122915, 122916>>, <<122918, 122922>>, <<123184, 123190>>, <<123566, 123566>>, <<123628, 123631>>,
      <<125136, 125142>>, <<125252, 125258>>, <<917536, 917631>>, <<917760, 917999>> }
GraphemeExtend(c) == c >= 128 /\ InRanges(c, GraphemeExtendRanges)
\* the characters from U+0080 on for which core::unicode::printable's
\* is_printable is false in both versions: the general categories Cc, Cf, Cs,
\* Co, Zl, Zp and Zs, and the noncharacters
NotPrintableRanges ==
    { <<128, 160>>, <<173, 173>>, <<1536, 1541>>, <<1564, 1564>>, <<1757, 1757>>,
      <<1807, 1807>>, <<2192, 2193>>, <<2274, 2274>>, <<5760, 5760>>, <<6158, 6158>>,
      <<8192, 8207>>, <<8232, 8239>>, <<8287, 8292>>, <<8294, 8303>>, <<12288, 12288>>,
      <<55296, 63743>>, <<64976, 65007>>, <<65279, 65279>>, <<65529, 65531>>, <<65534, 65535>>,
      <<69821, 69821>>, <<69837, 69837>>, <<78896, 78904>>, <<113824, 113827>>, <<119155, 119162>>,
      <<131070, 131071>>, <<196606, 196607>>, <<262142, 262143>>, <<327678, 327679>>, <<393214, 393215>>,
      <<458750, 458751>>, <<524286, 524287>>, <<589822, 589823>>, <<655358, 655359>>, <<720894, 720895>>,
      <<786430, 786431>>, <<851966, 851967>>, <<917502, 917503>>, <<917505, 917505>>, <<917536, 917631>>,
      <<983038, 1114111>> }
\* !is_printable: below U+0080 the C0 controls and DEL
NotPrintable(c) ==
    c < CharSpace \/ c = 127 \/ (c >= 128 /\ InRanges(c, NotPrintableRanges))
\* the characters whose class depends on the version of the tables: the code
\* points Unicode 14.0 leaves unassigned, which a later version may assign to
\* a printable character or to a mark, the spacing marks, which a later
\* version may add to Other_Grapheme_Extend (U+0CC0, U+1715), and U+1171E,
\* a nonspacing mark in Unicode 14.0 and a spacing one later
TableDependentRanges ==
    { <<888, 889>>, <<896, 899>>, <<907, 907>>, <<909, 909>>, <<930, 930>>,
      <<1328, 1328>>, <<1367, 1368>>, <<1419, 1420>>, <<1424, 1424>>, <<1480, 1487>>,
      <<1515, 1518>>, <<1525, 1535>>, <<1806, 1806>>, <<1867, 1868>>, <<1970, 1983>>,
      <<2043, 2044>>, <<2094, 2095>>, <<2111, 2111>>, <<2140, 2141>>, <<2143, 2143>>,
      <<2155, 2159>>, <<2191, 2191>>, <<2194, 2199>>, <<2307, 2307>>, <<2363, 2363>>,
      <<2366, 2368>>, <<2377, 2380>>, <<2382, 2383>>, <<2434, 2436>>, <<2445, 2446>>,
      <<2449, 2450>>, <<2473, 2473>>, <<2481, 2481>>, <<2483, 2485>>, <<2490, 2491>>,
      <<2495, 2496>>, <<2501, 2508>>, <<2511, 2518>>, <<2520, 2523>>, <<2526, 2526>>,
      <<2532, 2533>>, <<2559, 2560>>, <<2563, 2564>>, <<2571, 2574>>, <<2577, 2578>>,
      <<2601, 2601>>, <<2609, 2609>>, <<2612, 2612>>, <<2615, 2615>>, <<2618, 2619>>,
      <<2621, 2624>>, <<2627, 2630>>, <<2633, 2634>>, <<2638, 2640>>, <<2642, 2648>>,
      <<2653, 2653>>, <<2655, 2661>>, <<2679, 2688>>, <<2691, 2692>>, <<2702, 2702>>,
      <<2706, 2706>>, <<2729, 2729>>, <<2737, 2737>>, <<2740, 2740>>, <<2746, 2747>>,
      <<2750, 2752>>, <<2758, 2758>>, <<2761, 2764>>, <<2766, 2767>>, <<2769, 2783>>,
      <<2788, 2789>>, <<2802, 2808>>, <<2816, 2816>>, <<2818, 2820>>, <<2829, 2830>>,
      <<2833, 2834>>, <<2857, 2857>>, <<2865, 2865>>, <<2868, 2868>>, <<2874, 2875>>,
      <<2880, 2880>>, <<2885, 2892>>, <<2894, 2900>>, <<2904, 2907>>, <<2910, 2910>>,
      <<2916, 2917>>, <<2936, 2945>>, <<2948, 2948>>, <<2955, 2957>>, <<2961, 2961>>,
      <<2966, 2968>>, <<2971, 2971>>, <<2973, 2973>>, <<2976, 2978>>, <<2981, 2983>>,
      <<2987, 2989>>, <<3002, 3005>>, <<3007, 3007>>, <<3009, 3020>>, <<3022, 3023>>,
      <<3025, 3030>>, <<3032, 3045>>, <<3067, 3071>>, <<3073, 3075>>, <<3085, 3085>>,
      <<3089, 3089>>, <<3113, 3113>>, <<3130, 3131>>, <<3137, 3141>>, <<3145, 3145>>,
      <<3150, 3156>>, <<3159, 3159>>, <<3163, 3164>>, <<3166, 3167>>, <<3172, 3173>>,
      <<3184, 3190>>, <<3202, 3203>>, <<3213, 3213>>, <<3217, 3217>>, <<3241, 3241>>,
      <<3252, 3252>>, <<3258, 3259>>, <<3262, 3262>>, <<3264, 3265>>, <<3267, 3269>>,
      <<3271, 3275>>, <<3278, 3284>>, <<3287, 3292>>, <<3295, 3295>>, <<3300, 3301>>,
      <<3312, 3312>>, <<3315, 3327>>, <<3330, 3331>>, <<3341, 3341>>, <<3345, 3345>>,
      <<3391, 3392>>, <<3397, 3404>>, <<3408, 3411>>, <<3428, 3429>>, <<3456, 3456>>,
      <<3458, 3460>>, <<3479, 3481>>, <<3506, 3506>>, <<3516, 3516>>, <<3518, 3519>>,
      <<3527, 3529>>, <<3531, 3534>>, <<3536, 3537>>, <<3541, 3541>>, <<3543, 3550>>,
      <<3552, 3557>>, <<3568, 3571>>, <<3573, 3584>>, <<3643, 3646>>, <<3676, 3712>>,
      <<3715, 3715>>, <<3717, 3717>>, <<3723, 3723>>, <<3748, 3748>>, <<3750, 3750>>,
      <<3774, 3775>>, <<3781, 3781>>, <<3783, 3783>>, <<3790, 3791>>, <<3802, 3803>>,
      <<3808, 3839>>, <<3902, 3903>>, <<3912, 3912>>, <<3949, 3952>>, <<3967, 3967>>,
      <<3992, 3992>>, <<4029, 4029>>, <<4045, 4045>>, <<4059, 4095>>, <<4139, 4140>>,
      <<4145, 4145>>, <<4152, 4152>>, <<4155, 4156>>, <<4182, 4183>>, <<4194, 4196>>,
      <<4199, 4205>>, <<4227, 4228>>, <<4231, 4236>>, <<4239, 4239>>, <<4250, 4252>>,
      <<4294, 4294>>, <<4296, 4300>>, <<4302, 4303>>, <<4681, 4681>>, <<4686, 4687>>,
      <<4695, 4695>>, <<4697, 4697>>, <<4702, 4703>>, <<4745, 4745>>, <<4750, 4751>>,
      <<4785, 4785>>, <<4790, 4791>>, <<4799, 4799>>, <<4801, 4801>>, <<4806, 4807>>,
      <<4823, 4823>>, <<4881, 4881>>, <<4886, 4887>>, <<4955, 4956>>, <<4989, 4991>>,
      <<5018, 5023>>, <<5110, 5111>>, <<5118, 5119>>, <<5789, 5791>>, <<5881, 5887>>,
      <<5909, 5918>>, <<5940, 5940>>, <<5943, 5951>>, <<5972, 5983>>, <<5997, 5997>>,
      <<6001, 6001>>, <<6004, 6015>>, <<6070, 6070>>, <<6078, 6085>>, <<6087, 6088>>,
      <<6110, 6111>>, <<6122, 6127>>, <<6138, 6143>>, <<6170, 6175>>, <<6265, 6271>>,
      <<6315, 6319>>, <<6390, 6399>>, <<6431, 6431>>, <<6435, 6438>>, <<6441, 6449>>,
      <<6451, 6456>>, <<6460, 6463>>, <<6465, 6467>>, <<6510, 6511>>, <<6517, 6527>>,
      <<6572, 6575>>, <<6602, 6607>>, <<6619, 6621>>, <<6681, 6682>>, <<6684, 6685>>,
      <<6741, 6741>>, <<6743, 6743>>, <<6751, 6751>>, <<6753, 6753>>, <<6755, 6756>>,
      <<6765, 6770>>, <<6781, 6782>>, <<6794, 6799>>, <<6810, 6815>>, <<6830, 6831>>,
      <<6863, 6911>>, <<6916, 6916>>, <<6971, 6971>>, <<6973, 6977>>, <<6979, 6980>>,
      <<6989, 6991>>, <<7039, 7039>>, <<7042, 7042>>, <<7073, 7073>>, <<7078, 7079>>,
      <<7082, 7082>>, <<7143, 7143>>, <<7146, 7148>>, <<7150, 7150>>, <<7154, 7163>>,
      <<7204, 7211>>, <<7220, 7221>>, <<7224, 7226>>, <<7242, 7244>>, <<7305, 7311>>,
      <<7355, 7356>>, <<7368, 7375>>, <<7393, 7393>>, <<7415, 7415>>, <<7419, 7423>>,
      <<7958, 7959>>, <<7966, 7967>>, <<8006, 8007>>, <<8014, 8015>>, <<8024, 8024>>,
      <<8026, 8026>>, <<8028, 8028>>, <<8030, 8030>>, <<8062, 8063>>, <<8117, 8117>>,
      <<8133, 8133>>, <<8148, 8149>>, <<8156, 8156>>, <<8176, 8177>>, <<8181, 8181>>,
      <<8191, 8191>>, <<8293, 8293>>, <<8306, 8307>>, <<8335, 8335>>, <<8349, 8351>>,
      <<8385, 8399>>, <<8433, 8447>>, <<8588, 8591>>, <<9255, 9279>>, <<9291, 9311>>,
      <<11124, 11125>>, <<11158, 11158>>, <<11508, 11512>>, <<11558, 11558>>, <<11560, 11564>>,
      <<11566, 11567>>, <<11624, 11630>>, <<11633, 11646>>, <<11671, 11679>>, <<11687, 11687>>,
      <<11695, 11695>>, <<11703, 11703>>, <<11711, 11711>>, <<11719, 11719>>, <<11727, 11727>>,
      <<11735, 11735>>, <<11743, 11743>>, <<11870, 11903>>, <<11930, 11930>>, <<12020, 12031>>,
      <<12246, 12271>>, <<12284, 12287>>, <<12352, 12352>>, <<12439, 12440>>, <<12544, 12548>>,
      <<12592, 12592>>, <<12687, 12687>>, <<12772, 12783>>, <<12831, 12831>>, <<42125, 42127>>,
      <<42183, 42191>>, <<42540, 42559>>, <<42744, 42751>>, <<42955, 42959>>, <<42962, 42962>>,
      <<42964, 42964>>, <<42970, 42993>>, <<43043, 43044>>, <<43047, 43047>>, <<43053, 43055>>,
      <<43066, 43071>>, <<43128, 43137>>, <<43188, 43203>>, <<43206, 43213>>, <<43226, 43231>>,
      <<43346, 43358>>, <<43389, 43391>>, <<43395, 43395>>, <<43444, 43445>>, <<43450, 43451>>,
      <<43454, 43456>>, <<43470, 43470>>, <<43482, 43485>>, <<43519, 43519>>, <<43567, 43568>>,
      <<43571, 43572>>, <<43575, 43583>>, <<43597, 43599>>, <<43610, 43611>>, <<43643, 43643>>,
      <<43645, 43645>>, <<43715, 43738>>, <<43755, 43755>>, <<43758, 43759>>, <<43765, 43765>>,
      <<43767, 43776>>, <<43783, 43784>>, <<43791, 43792>>, <<43799, 43807>>, <<43815, 43815>>,
      <<43823, 43823>>, <<43884, 43887>>, <<44003, 44004>>, <<44006, 44007>>, <<44009, 44010>>,
      <<44012, 44012>>, <<44014, 44015>>, <<44026, 44031>>, <<55204, 55215>>, <<55239, 55242>>,
      <<55292, 55295>>, <<64110, 64111>>, <<64218, 64255>>, <<64263, 64274>>, <<64280, 64284>>,
      <<64311, 64311>>, <<64317, 64317>>, <<64319, 64319>>, <<64322, 64322>>, <<64325, 64325>>,
      <<64451, 64466>>, <<64912, 64913>>, <<64968, 64974>>, <<65050, 65055>>, <<65107, 65107>>,
      <<65127, 65127>>, <<65132, 65135>>, <<65141, 65141>>, <<65277, 65278>>, <<65280, 65280>>,
      <<65471, 65473>>, <<65480, 65481>>, <<65488, 65489>>, <<65496, 65497>>, <<65501, 65503>>,
      <<65511, 65511>>, <<65519, 65528>>, <<65548, 65548>>, <<65575, 65575>>, <<65595, 65595>>,
      <<65598, 65598>>, <<65614, 65615>>, <<65630, 65663>>, <<65787, 65791>>, <<65795, 65798>>,
      <<65844, 65846>>, <<65935, 65935>>, <<65949, 65951>>, <<65953, 65999>>, <<66046, 66175>>,
      <<66205, 66207>>, <<66257, 66271>>, <<66300, 66303>>, <<66340, 66348>>, <<66379, 66383>>,
      <<66427, 66431>>, <<66462, 66462>>, <<66500, 66503>>, <<66518, 66559>>, <<66718, 66719>>,
      <<66730, 66735>>, <<66772, 66775>>, <<66812, 66815>>, <<66856, 66863>>, <<66916, 66926>>,
      <<66939, 66939>>, <<66955, 66955>>, <<66963, 66963>>, <<66966, 66966>>, <<66978, 66978>>,
      <<66994, 66994>>, <<67002, 67002>>, <<67005, 67071>>, <<67383, 67391>>, <<67414, 67423>>,
      <<67432, 67455>>, <<67462, 67462>>, <<67505, 67505>>, <<67515, 67583>>, <<67590, 67591>>,
      <<67593, 67593>>, <<67638, 67638>>, <<67641, 67643>>, <<67645, 67646>>, <<67670, 67670>>,
      <<67743, 67750>>, <<67760, 67807>>, <<67827, 67827>>, <<67830, 67834>>, <<67868, 67870>>,
      <<67898, 67902>>, <<67904, 67967>>, <<68024, 68027>>, <<68048, 68049>>, <<68100, 68100>>,
      <<68103, 68107>>, <<68116, 68116>>, <<68120, 68120>>, <<68150, 68151>>, <<68155, 68158>>,
      <<68169, 68175>>, <<68185, 68191>>, <<68256, 68287>>, <<68327, 68330>>, <<68343, 68351>>,
      <<68406, 68408>>, <<68438, 68439>>, <<68467, 68471>>, <<68498, 68504>>, <<68509, 68520>>,
      <<68528, 68607>>, <<68681, 68735>>, <<68787, 68799>>, <<68851, 68857>>, <<68904, 68911>>,
      <<68922, 69215>>, <<69247, 69247>>, <<69290, 69290>>, <<69294, 69295>>, <<69298, 69375>>,
      <<69416, 69423>>, <<69466, 69487>>, <<69514, 69551>>, <<69580, 69599>>, <<69623, 69632>>,
      <<69634, 69634>>, <<69710, 69713>>, <<69750, 69758>>, <<69762, 69762>>, <<69808, 69810>>,
      <<69815, 69816>>, <<69827, 69836>>, <<69838, 69839>>, <<69865, 69871>>, <<69882, 69887>>,
      <<69932, 69932>>, <<69941, 69941>>, <<69957, 69958>>, <<69960, 69967>>, <<70007, 70015>>,
      <<70018, 70018>>, <<70067, 70069>>, <<70079, 70080>>, <<70094, 70094>>, <<70112, 70112>>,
      <<70133, 70143>>, <<70162, 70162>>, <<70188, 70190>>, <<70194, 70195>>, <<70197, 70197>>,
      <<70207, 70271>>, <<70279, 70279>>, <<70281, 70281>>, <<70286, 70286>>, <<70302, 70302>>,
      <<70314, 70319>>, <<70368, 70370>>, <<70379, 70383>>, <<70394, 70399>>, <<70402, 70404>>,
      <<70413, 70414>>, <<70417, 70418>>, <<70441, 70441>>, <<70449, 70449>>, <<70452, 70452>>,
      <<70458, 70458>>, <<70463, 70463>>, <<70465, 70479>>, <<70481, 70486>>, <<70488, 70492>>,
      <<70498, 70501>>, <<70509, 70511>>, <<70517, 70655>>, <<70709, 70711>>, <<70720, 70721>>,
      <<70725, 70725>>, <<70748, 70748>>, <<70754, 70783>>, <<70833, 70834>>, <<70841, 70841>>,
      <<70843, 70844>>, <<70846, 70846>>, <<70849, 70849>>, <<70856, 70863>>, <<70874, 71039>>,
      <<71088, 71089>>, <<71094, 71099>>, <<71102, 71102>>, <<71134, 71167>>, <<71216, 71218>>,
      <<71227, 71228>>, <<71230, 71230>>, <<71237, 71247>>, <<71258, 71263>>, <<71277, 71295>>,
      <<71340, 71340>>, <<71342, 71343>>, <<71350, 71350>>, <<71354, 71359>>, <<71370, 71423>>,
      <<71451, 71452>>, <<71454, 71454>>, <<71456, 71457>>, <<71462, 71462>>, <<71468, 71471>>,
      <<71495, 71679>>, <<71724, 71726>>, <<71736, 71736>>, <<71740, 71839>>, <<71923, 71934>>,
      <<71943, 71944>>, <<71946, 71947>>, <<71956, 71956>>, <<71959, 71959>>, <<71985, 71994>>,
      <<71997, 71997>>, <<72000, 72000>>, <<72002, 72002>>, <<72007, 72015>>, <<72026, 72095>>,
      <<72104, 72105>>, <<72145, 72147>>, <<72152, 72153>>, <<72156, 72159>>, <<72164, 72191>>,
      <<72249, 72249>>, <<72264, 72271>>, <<72279, 72280>>, <<72343, 72343>>, <<72355, 72367>>,
      <<72441, 72703>>, <<72713, 72713>>, <<72751, 72751>>, <<72759, 72759>>, <<72766, 72766>>,
      <<72774, 72783>>, <<72813, 72815>>, <<72848, 72849>>, <<72872, 72873>>, <<72881, 72881>>,
      <<72884, 72884>>, <<72887, 72959>>, <<72967, 72967>>, <<72970, 72970>>, <<73015, 73017>>,
      <<73019, 73019>>, <<73022, 73022>>, <<73032, 73039>>, <<73050, 73055>>, <<73062, 73062>>,
      <<73065, 73065>>, <<73098, 73103>>, <<73106, 73108>>, <<73110, 73110>>, <<73113, 73119>>,
      <<73130, 73439>>, <<73461, 73462>>, <<73465, 73647>>, <<73649, 73663>>, <<73714, 73726>>,
      <<74650, 74751>>, <<74863, 74863>>, <<74869, 74879>>, <<75076, 77711>>, <<77811, 77823>>,
      <<78895, 78895>>, <<78905, 82943>>, <<83527, 92159>>, <<92729, 92735>>, <<92767, 92767>>,
      <<92778, 92781>>, <<92863, 92863>>, <<92874, 92879>>, <<92910, 92911>>, <<92918, 92927>>,
      <<92998, 93007>>, <<93018, 93018>>, <<93026, 93026>>, <<93048, 93052>>, <<93072, 93759>>,
      <<93851, 93951>>, <<94027, 94030>>, <<94033, 94094>>, <<94112, 94175>>, <<94181, 94207>>,
      <<100344, 100351>>, <<101590, 101631>>, <<101641, 110575>>, <<110580, 110580>>, <<110588, 110588>>,
      <<110591, 110591>>, <<110883, 110927>>, <<110931, 110947>>, <<110952, 110959>>, <<111356, 113663>>,
      <<113771, 113775>>, <<113789, 113791>>, <<113801, 113807>>, <<113818, 113819>>, <<113828, 118527>>,
      <<118574, 118575>>, <<118599, 118607>>, <<118724, 118783>>, <<119030, 119039>>, <<119079, 119080>>,
      <<119142, 119142>>, <<119149, 119149>>, <<119275, 119295>>, <<119366, 119519>>, <<119540, 119551>>,
      <<119639, 119647>>, <<119673, 119807>>, <<119893, 119893>>, <<119965, 119965>>, <<119968, 119969>>,
      <<119971, 119972>>, <<119975, 119976>>, <<119981, 119981>>, <<119994, 119994>>, <<119996, 119996>>,
      <<120004, 120004>>, <<120070, 120070>>, <<120075, 120076>>, <<120085, 120085>>, <<120093, 120093>>,
      <<120122, 120122>>, <<120127, 120127>>, <<120133, 120133>>, <<120135, 120137>>, <<120145, 120145>>,
      <<120486, 120487>>, <<120780, 120781>>, <<121484, 121498>>, <<121504, 121504>>, <<121520, 122623>>,
      <<122655, 122879>>, <<122887, 122887>>, <<122905, 122906>>, <<122914, 122914>>, <<122917, 122917>>,
      <<122923, 123135>>, <<123181, 123183>>, <<123198, 123199>>, <<123210, 123213>>, <<123216, 123535>>,
      <<123567, 123583>>, <<123642, 123646>>, <<123648, 124895>>, <<124903, 124903>>, <<124908, 124908>>,
      <<124911, 124911>>, <<124927, 124927>>, <<125125, 125126>>, <<125143, 125183>>, <<125260, 125263>>,
      <<125274, 125277>>, <<125280, 126064>>, <<126133, 126208>>, <<126270, 126463>>, <<126468, 126468>>,
      <<126496, 126496>>, <<126499, 126499>>, <<126501, 126502>>, <<126504, 126504>>, <<126515, 126515>>,
      <<126520, 126520>>, <<126522, 126522>>, <<126524, 126529>>, <<126531, 126534>>, <<126536, 126536>>,
      <<126538, 126538>>, <<126540, 126540>>, <<126544, 126544>>, <<126547, 126547>>, <<126549, 126550>>,
      <<126552, 126552>>, <<126554, 126554>>, <<126556, 126556>>, <<126558, 126558>>, <<126560, 126560>>,
      <<126563, 126563>>, <<126565, 126566>>, <<126571, 126571>>, <<126579, 126579>>, <<126584, 126584>>,
      <<126589, 126589>>, <<126591, 126591>>, <<126602, 126602>>, <<126620, 126624>>, <<126628, 126628>>,
      <<126634, 126634>>, <<126652, 126703>>, <<126706, 126975>>, <<127020, 127023>>, <<127124, 127135>>,
      <<127151, 127152>>, <<127168, 127168>>, <<127184, 127184>>, <<127222, 127231>>, <<127406, 127461>>,
      <<127491, 127503>>, <<127548, 127551>>, <<127561, 127567>>, <<127570, 127583>>, <<127590, 127743>>,
      <<128728, 128732>>, <<128749, 128751>>, <<128765, 128767>>, <<128884, 128895>>, <<128985, 128991>>,
      <<129004, 129007>>, <<129009, 129023>>, <<129036, 129039>>, <<129096, 129103>>, <<129114, 129119>>,
      <<129160, 129167>>, <<129198, 129199>>, <<129202, 129279>>, <<129620, 129631>>, <<129646, 129647>>,
      <<129653, 129655>>, <<129661, 129663>>, <<129671, 129679>>, <<129709, 129711>>, <<129723, 129727>>,
      <<129734, 129743>>, <<129754, 129759>>, <<129768, 129775>>, <<129783, 129791>>, <<129939, 129939>>,
      <<129995, 130031>>, <<130042, 131069>>, <<173792, 173823>>, <<177977, 177983>>, <<178206, 178207>>,
      <<183970, 183983>>, <<191457, 194559>>, <<195102, 196605>>, <<201547, 262141>>, <<262144, 327677>>,
      <<327680, 393213>>, <<393216, 458749>>, <<458752, 524285>>, <<524288, 589821>>, <<589824, 655357>>,
      <<655360, 720893>>, <<720896, 786429>>, <<786432, 851965>>, <<851968, 917501>>, <<917504, 917504>>,
      <<917506, 917535>>, <<917632, 917759>>, <<918000, 983037>> }
TableDependent(c) == c >= 128 /\ InRanges(c, TableDependentRanges)
\* \u{h..h}
EscapeUnicode(c) ==
    <<CharBackslash, CharLowerU, CharLBrace>> \o LowerHex(c) \o <<CharRBrace>>
\* char::escape_debug of the character with code c, inside a string: the set
\* of the texts a build of the program can write, one text unless the class
\* of the character depends on the version of the tables
EscapeChar(c) ==
    CASE c = 0 -> {<<CharBackslash, CharZero>>}
      [] c = 9 -> {<<CharBackslash, CharLowerT>>}
      [] c = CharNL -> {<<CharBackslash, CharLowerN>>}
      [] c = CharCR -> {<<CharBackslash, CharLowerR>>}
      [] c \in {CharQuote, CharBackslash} -> {<<CharBackslash, c>>}
      [] OTHER -> IF GraphemeExtend(c) THEN {EscapeUnicode(c)}
                  ELSE IF TableDependent(c) THEN {EscapeUnicode(c), Utf8(c)}
                  ELSE IF NotPrintable(c) THEN {EscapeUnicode(c)}
                  ELSE {Utf8(c)}
\* the escapes of the characters of the key, in order: the set of the texts a
\* build can write.  A String is UTF-8; an element from 128 up that starts no
\* character stands for the character of that code.
RECURSIVE EscapeDebug(_)
\* an escape of the first character followed by an escape of the rest
EscapeJoin(hs, ts) == { h \o t : h \in hs, t \in ts }
\* the key starts with a character of w bytes with code c
EscapeFirst(k, w, c) == EscapeJoin(EscapeChar(c), EscapeDebug(Drop(k, w)))
\* the key starts with a byte from 128 up, w as Utf8Width gives it
EscapeWide(k, w) ==
    IF w = 0 THEN EscapeFirst(k, 1, k[1]) ELSE EscapeFirst(k, w, Utf8Code(k, 1, w))
EscapeDebug(k) ==
    IF k = <<>> THEN {<<>>}
    ELSE IF k[1] < 128 THEN EscapeFirst(k, 1, k[1])
    ELSE EscapeWide(k, Utf8Width(k, 1))
\* the texts {:?} can write for the key
DebugKey(k) == { <<CharQuote>> \o e \o <<CharQuote>> : e \in EscapeDebug(k) }

\* String::from_str (key_str.parse::<K>()): never fails, the string itself
ParseKey(t) == [ok |-> TRUE, key |-> t]

\* Display for i32 ({} of a value): decimal digits, '-' before a negative one
RECURSIVE Digits(_)
Digits(n) == IF n < 10 THEN <<CharZero + n>>
             ELSE Append(Digits(n \div 10), CharZero + (n % 10))
DisplayValue(v) == IF v < 0 THEN <<CharMinus>> \o Digits(-v) ELSE Digits(v)

\* i32::from_str (value_str.parse::<V>()): an optional sign and at least one
\* decimal digit, within the range of i32
RECURSIVE DigitsValue(_)
DigitsValue(t) ==
    IF t = <<>> THEN 0 ELSE DigitsValue(Take(t, Len(t) - 1)) * 10 + (t[Len(t)] - CharZero)
ParseValue(t) ==
    LET signed == t # <<>> /\ t[1] \in {CharPlus, CharMinus}
        ds     == IF signed THEN Tail(t) ELSE t
    IN  IF ds = <<>> \/ \E i \in 1..Len(ds) : ds[i] < CharZero \/ ds[i] > CharZero + 9
        THEN [ok |-> FALSE]
        ELSE LET n == IF signed /\ t[1] = CharMinus THEN -DigitsValue(ds)
                      ELSE DigitsValue(ds)
             IN  IF n > 2147483647 \/ n < -2147483647 - 1 THEN [ok |-> FALSE]
                 ELSE [ok |-> TRUE, value |-> n]

\* format!("INSERT {} {}\n", key, value) (log.rs:52, 127)
InsertEntry(k, v) ==
    TokINSERT \o <<CharSpace>> \o DisplayKey(k) \o <<CharSpace>> \o DisplayValue(v)
              \o <<CharNL>>
\* format!("DELETE {:?}\n", key) (log.rs:57): the records a build can write,
\* one record unless the key holds a character of TableDependentRanges
DeleteEntry(k) == { TokDELETE \o <<CharSpace>> \o q \o <<CharNL>> : q \in DebugKey(k) }

\* BufRead::lines (log.rs:67) over the bytes of a file: the text before each
\* '\n', without a '\r' that ends it, and the text after the last '\n' if any
RECURSIVE LinesFrom(_, _, _)
LinesFrom(data, i, cur) ==
    IF i > Len(data) THEN (IF cur = <<>> THEN <<>> ELSE <<cur>>)
    ELSE IF data[i] = CharNL
    THEN <<IF cur # <<>> /\ cur[Len(cur)] = CharCR THEN Take(cur, Len(cur) - 1) ELSE cur>>
         \o LinesFrom(data, i + 1, <<>>)
    ELSE LinesFrom(data, i + 1, Append(cur, data[i]))
Lines(data) == LinesFrom(data, 1, <<>>)

\* the number of bytes of the whitespace character that starts at line[i], 0
\* when no whitespace character starts there
SpaceWide(line, i, w) == IF w > 0 /\ IsSpace(Utf8Code(line, i, w)) THEN w ELSE 0
SpaceWidth(line, i) ==
    IF line[i] < 128 THEN (IF IsSpace(line[i]) THEN 1 ELSE 0)
    ELSE SpaceWide(line, i, Utf8Width(line, i))
\* str::split_whitespace (log.rs:69): the maximal runs of non-whitespace
RECURSIVE TokensFrom(_, _, _)
\* line[i] starts a whitespace character of w bytes, or none when w = 0
TokensStep(line, i, cur, w) ==
    IF w > 0
    THEN (IF cur = <<>> THEN <<>> ELSE <<cur>>) \o TokensFrom(line, i + w, <<>>)
    ELSE TokensFrom(line, i + 1, Append(cur, line[i]))
TokensFrom(line, i, cur) ==
    IF i > Len(line) THEN (IF cur = <<>> THEN <<>> ELSE <<cur>>)
    ELSE IF line[i] < 128
    THEN (IF IsSpace(line[i])
          THEN (IF cur = <<>> THEN <<>> ELSE <<cur>>) \o TokensFrom(line, i + 1, <<>>)
          ELSE TokensFrom(line, i + 1, Append(cur, line[i])))
    ELSE TokensStep(line, i, cur, SpaceWidth(line, i))
Tokens(line) == TokensFrom(line, 1, <<>>)

\* self.btree.insert(key, value) with the parsed key and value (log.rs:78-83);
\* a failed parse panics in unwrap
replay_insert(rt, key, value) ==
    IF ~key.ok \/ ~value.ok THEN Panic ELSE BTreeInsert(rt, key.key, value.value)

\* what recover_state keeps of a delete that ended with d: the BTree
drop_ret(d) == IF d.ok THEN [ok |-> TRUE, root |-> d.root] ELSE Panic

\* self.btree.delete(&key) with the parsed key (log.rs:89-93)
replay_delete(rt, key) ==
    IF ~key.ok THEN Panic ELSE drop_ret(BTreeDelete(rt, key.key))

\* the match on the tokens of a line if a line that does not start with INSERT
\* or DELETE were skipped
replay_tokens_skipping(rt, tokens) ==
    IF tokens # <<>> /\ tokens[1] = TokINSERT
    THEN IF Len(tokens) < 3 THEN Panic
         ELSE replay_insert(rt, ParseKey(tokens[2]), ParseValue(tokens[3]))
    ELSE IF tokens # <<>> /\ tokens[1] = TokDELETE
    THEN IF Len(tokens) < 2 THEN Panic
         ELSE replay_delete(rt, ParseKey(tokens[2]))
    ELSE [ok |-> TRUE, root |-> rt]

\* the match on the tokens of a line (log.rs:71-96)
replay_tokens(rt, tokens) ==
    IF tokens # <<>> /\ tokens[1] = TokINSERT
    THEN IF Len(tokens) < 3 THEN Panic
         ELSE replay_insert(rt, ParseKey(tokens[2]), ParseValue(tokens[3]))
    ELSE IF tokens # <<>> /\ tokens[1] = TokDELETE
    THEN IF Len(tokens) < 2 THEN Panic
         ELSE replay_delete(rt, ParseKey(tokens[2]))
    ELSE Panic

\* the body of the loop of recover_state (log.rs:68-96) for one line, on the
\* BTree rt: [ok, root]; a failed unwrap and an invalid entry panic, and so
\* does line.unwrap() (log.rs:68) on a line that is not UTF-8
ReplayLine(rt, line) ==
    IF ~ValidUtf8(line) THEN Panic ELSE replay_tokens(rt, Tokens(line))

RECURSIVE ReplayFrom(_, _, _)
\* the lines from the i-th on, once the line before them ended with r
replay_rest(lines, i, r) ==
    IF r.ok THEN ReplayFrom(lines, i, r.root) ELSE Panic

\* the loop of recover_state (log.rs:67) from the i-th line on, on the BTree rt
ReplayFrom(lines, i, rt) ==
    IF i > Len(lines) THEN [ok |-> TRUE, root |-> rt]
    ELSE replay_rest(lines, i + 1, ReplayLine(rt, lines[i]))

\* LogManager::recover_state (log.rs:64) on a new BTree: [ok, root]
recover_state(data) == ReplayFrom(Lines(data), 1, None)

\* File::write_all at cursor position at of a file with bytes data
\* (log.rs:107): the bytes from there on are overwritten and the file grows as
\* needed
WriteAt(data, at, entry) ==
    Take(data, at) \o entry \o Drop(data, at + Len(entry))

\* -------------------------------------------------------------- LogManager
NoSess == [fresh |-> FALSE, shut |-> 0, after |-> FALSE]
NoEnd == [any |-> FALSE, fresh |-> FALSE, shut |-> 0, after |-> FALSE,
          pc |-> "idle", panic |-> FALSE]
NoCall == [op |-> "new", key |-> <<>>, value |-> 0, ret |-> None]

\* LogManager::new with the handle left at the start of the log after
\* recover_state
Opened_rewound(data, r) ==
    /\ files' = [files EXCEPT ![LOG_FILE] = [present |-> TRUE, data |-> data]]
    /\ up' = r.ok
    /\ panicked' = ~r.ok
    /\ root' = IF r.ok THEN r.root ELSE None
    /\ pos' = 0
    /\ sess' = IF r.ok
               THEN [fresh |-> data = <<>> /\ ~files[temp_log_path].present,
                     shut |-> 0, after |-> FALSE]
               ELSE NoSess

\* LogManager::new (log.rs:31) once recover_state ended with r on the bytes
\* data of the log: the handle is at their end
Opened(data, r) ==
    /\ files' = [files EXCEPT ![LOG_FILE] = [present |-> TRUE, data |-> data]]
    /\ up' = r.ok
    /\ panicked' = ~r.ok
    /\ root' = IF r.ok THEN r.root ELSE None
    /\ pos' = IF r.ok THEN Len(data) ELSE 0
    /\ sess' = IF r.ok
               THEN [fresh |-> data = <<>> /\ ~files[temp_log_path].present,
                     shut |-> 0, after |-> FALSE]
               ELSE NoSess

\* the bytes of the log if it were opened with truncate(true)
LogBytes_truncated == <<>>

\* the bytes of the log when it is opened with create(true) (log.rs:32-37)
LogBytes == IF files[LOG_FILE].present THEN files[LOG_FILE].data ELSE <<>>

\* LogManager::new (log.rs:31): open or create the log, replay it.  A panic in
\* recover_state leaves no LogManager.
Open ==
    /\ ~up /\ opens < MaxOpens
    /\ opens' = opens + 1
    /\ Opened(LogBytes, recover_state(LogBytes))
    /\ last' = [NoCall EXCEPT !.op = "open"]
    /\ UNCHANGED <<stdlib, pre, nops, hist, pc, todo, tpos, ended, mem, oldlog>>

\* the LogManager is gone, by a panic or not: its btree and its handles are
\* lost, the files stay.  mem and ended keep what it was for the next
\* LogManager::new.
Gone(panic) ==
    /\ up' = FALSE
    /\ root' = None
    /\ pos' = 0
    /\ pc' = "idle"
    /\ todo' = <<>>
    /\ tpos' = 0
    /\ oldlog' = <<>>
    /\ sess' = NoSess
    /\ panicked' = panic
    /\ mem' = root
    /\ ended' = [any |-> TRUE, fresh |-> sess.fresh, shut |-> sess.shut,
                 after |-> sess.after, pc |-> pc, panic |-> panic]
    /\ UNCHANGED files

\* one more of the at most LogOps calls of insert and delete
LogCounted == up /\ pc = "idle" /\ nops < LogOps /\ nops' = nops + 1

\* a call that returned: the Index was changed to rt, then entry was written
\* to the log at the cursor
Logged(rt, entry) ==
    /\ root' = rt
    /\ files' = [files EXCEPT ![LOG_FILE].data = WriteAt(@, pos, entry)]
    /\ pos' = pos + Len(entry)
    /\ sess' = [sess EXCEPT !.after = sess.shut > 0]
    /\ mem' = None
    /\ ended' = NoEnd
    /\ UNCHANGED <<up, panicked, pc, todo, tpos, oldlog>>

\* the Index call ended with r: write_log(entry) follows, or the panic unwinds
Called(r, entry) == IF r.ok THEN Logged(r.root, entry) ELSE Gone(TRUE)

\* LogManager::insert (log.rs:50): the Index, then the log
LogInsert(key, value) ==
    /\ LogCounted
    /\ Called(BTreeInsert(root, key, value), InsertEntry(key, value))
    /\ last' = [NoCall EXCEPT !.op = "insert", !.key = key, !.value = value]
    /\ UNCHANGED <<stdlib, pre, hist, opens>>

\* LogManager::delete (log.rs:55): the Index, then the log
LogDelete(key) ==
    /\ LogCounted
    /\ \E entry \in DeleteEntry(key) : Called(BTreeDelete(root, key), entry)
    /\ last' = [NoCall EXCEPT !.op = "delete", !.key = key]
    /\ UNCHANGED <<stdlib, pre, hist, opens>>

\* what a step of persist_data leaves alone
ShutFrame == UNCHANGED <<stdlib, root, panicked, pre, nops, hist, up, opens>>

\* persist_data (log.rs:113-121): open or create temp_log.txt, without
\* truncating it, and take the traversal of the btree
ShutBegin ==
    /\ up /\ pc = "idle"
    /\ pc' = "writing"
    /\ files' = [files EXCEPT ![temp_log_path].present = TRUE]
    /\ todo' = traverse(root)
    /\ tpos' = 0
    /\ oldlog' = files[LOG_FILE].data
    /\ last' = [NoCall EXCEPT !.op = "shutdown"]
    /\ mem' = None
    /\ ended' = NoEnd
    /\ UNCHANGED <<pos, sess>>
    /\ ShutFrame

\* persist_data (log.rs:125-128): write the next pair to temp_log_file
ShutWrite ==
    /\ up /\ pc = "writing" /\ todo # <<>>
    /\ LET entry == InsertEntry(todo[1][1], todo[1][2]) IN
       /\ files' = [files EXCEPT ![temp_log_path].data = WriteAt(@, tpos, entry)]
       /\ tpos' = tpos + Len(entry)
    /\ todo' = Tail(todo)
    /\ UNCHANGED <<pos, pc, sess, oldlog, last, mem, ended>>
    /\ ShutFrame

\* persist_data (log.rs:131-136): close temp_log_file, create (truncate)
\* dummy.txt and make it self.log_file, close the old log file
ShutDummy ==
    /\ up /\ pc = "writing" /\ todo = <<>>
    /\ pc' = "dummy"
    /\ files' = [files EXCEPT ![dummy_file_path] = [present |-> TRUE, data |-> <<>>]]
    /\ pos' = 0
    /\ tpos' = 0
    /\ UNCHANGED <<todo, sess, oldlog, last, mem, ended>>
    /\ ShutFrame

\* persist_data (log.rs:139): fs::rename(temp_log_path, LOG_FILE)
ShutRename ==
    /\ up /\ pc = "dummy"
    /\ pc' = "renamed"
    /\ files' = [files EXCEPT ![LOG_FILE] = files[temp_log_path],
                              ![temp_log_path] = NoFile]
    /\ UNCHANGED <<pos, todo, tpos, sess, oldlog, last, mem, ended>>
    /\ ShutFrame

\* persist_data (log.rs:142-147): open LOG_FILE as self.log_file, cursor at 0
ShutReopen ==
    /\ up /\ pc = "renamed"
    /\ pc' = "reopened"
    /\ files' = [files EXCEPT ![LOG_FILE].present = TRUE]
    /\ pos' = 0
    /\ UNCHANGED <<todo, tpos, sess, oldlog, last, mem, ended>>
    /\ ShutFrame

\* persist_data (log.rs:150): remove dummy.txt; shutdown() returns
ShutRemoveDummy ==
    /\ up /\ pc = "reopened"
    /\ pc' = "idle"
    /\ files' = [files EXCEPT ![dummy_file_path] = NoFile]
    /\ sess' = [sess EXCEPT !.shut = IF @ < 2 THEN @ + 1 ELSE @, !.after = FALSE]
    /\ oldlog' = <<>>
    /\ last' = [NoCall EXCEPT !.op = "shutdown", !.ret = Some(0)]
    /\ UNCHANGED <<pos, todo, tpos, mem, ended>>
    /\ ShutFrame

\* the process ends, between two calls or inside shutdown(): the LogManager
\* is dropped or the process crashes
Exit ==
    /\ up
    /\ Gone(FALSE)
    /\ last' = [NoCall EXCEPT !.op = "exit"]
    /\ UNCHANGED <<stdlib, pre, nops, hist, opens>>

\* the records of the entries es, in their order (log.rs:125-128)
RECURSIVE Records(_)
Records(es) ==
    IF es = <<>> THEN <<>> ELSE InsertEntry(es[1][1], es[1][2]) \o Records(Tail(es))

\* the log that a run which inserted the first 2B - 1 keys in ascending order
\* and ended without shutdown left behind
SeedLog ==
    Records([i \in 1..(2 * B - 1) |-> <<<<CharA + i - 1>>, i>>])

\* "UPDATE", a token that recover_state does not know
TokUPDATE == <<85, 80, 68, 65, 84, 69>>

\* U+00A0, the no-break space, in UTF-8, and a byte that no UTF-8 text holds
NoBreakSpace == <<194, 160>>
NotUtf8 == <<255>>

\* lines that recover_state cannot take as a record (log.rs:68-96): an unknown
\* leading token, INSERT without key or without value, DELETE without key, a
\* value that is a letter or a sign without digits, a key split in two by a
\* no-break space, a line that is not UTF-8
BadRecords ==
    { TokUPDATE \o <<CharSpace, CharA, CharSpace>> \o DisplayValue(1) \o <<CharNL>>,
      TokINSERT \o <<CharNL>>,
      TokINSERT \o <<CharSpace, CharA, CharNL>>,
      TokDELETE \o <<CharNL>>,
      TokINSERT \o <<CharSpace, CharA, CharSpace, CharA, CharNL>>,
      TokINSERT \o <<CharSpace, CharA, CharSpace, CharMinus, CharNL>>,
      TokINSERT \o <<CharSpace, CharA>> \o NoBreakSpace
                \o <<CharA, CharSpace>> \o DisplayValue(1) \o <<CharNL>>,
      TokINSERT \o <<CharSpace>> \o NotUtf8 \o <<CharSpace>> \o DisplayValue(1)
                \o <<CharNL>> }

\* logs of an earlier run in which one line between two records was damaged
CorruptLogs ==
    { InsertEntry(<<CharA>>, 1) \o bad \o InsertEntry(<<CharA + 1>>, 2) :
          bad \in BadRecords }

\* the process starts in a directory without a log (as the test makes sure,
\* tests/log_manager.rs:12) or with the log of an earlier run, whole or damaged
LogInit ==
    \E old \in {NoFile} \cup { [present |-> TRUE, data |-> d] :
                                  d \in {SeedLog} \cup CorruptLogs } :
        Start([[p \in Paths |-> NoFile] EXCEPT ![LOG_FILE] = old])

\* the keys and values the callers of a LogManager use (tests/log_manager.rs:20)
LogNext ==
    \/ Open
    \/ \E k \in KeysUpTo(LogKeys) : LogInsert(k, LetterValue(k))
    \/ \E k \in KeysUpTo(LogKeys) : LogDelete(k)
    \/ ShutBegin
    \/ ShutWrite
    \/ ShutDummy
    \/ ShutRename
    \/ ShutReopen
    \/ ShutRemoveDummy
    \/ Exit

SpecLog == LogInit /\ [][LogNext]_vars

\* ------------------------------------------------------------------ claims
\* what search answers for a key paired with value v, and for a key not stored
Found(v) == [ok |-> TRUE, ret |-> Some(v)]
Absent == [ok |-> TRUE, ret |-> None]

\* C1 (insert-then-lookup): from the empty BTree, after inserts of pairwise
\* distinct keys, search finds every inserted key with its value and finds no
\* key that was never inserted.
C1_InsertThenLookup ==
    (~hist.dup /\ ~panicked) =>
        \A k \in KeysUpTo(InsKeys) :
            BTreeSearch(root, k) =
                IF k \in hist.keys THEN Found(LetterValue(k)) ELSE Absent

\* C1 witness: all keys were inserted, each once, and both the root and one of
\* its children have been split on the way.
C1_Witness ==
    /\ ~hist.dup /\ ~panicked
    /\ hist.keys = KeysUpTo(InsKeys)
    /\ root # None
    /\ Len(root[1].children) >= 3

\* C2 (delete-then-lookup): after delete(k) returns, search(k) is absent and
\* search of every other key answers what it answered before the delete.
C2_DeleteThenLookup ==
    (last.op = "delete" /\ ~panicked) =>
        /\ BTreeSearch(root, last.key) = Absent
        /\ \A k \in PlainKeys \ {last.key} : BTreeSearch(root, k) = BTreeSearch(pre, k)

\* C3 (delete returns the removed value): delete(k) returns what search(k)
\* answered just before it, the value of k or absent.
C3_DeleteReturnsRemoved ==
    (last.op = "delete" /\ ~panicked /\ BTreeSearch(pre, last.key).ok) =>
        last.ret = BTreeSearch(pre, last.key).ret

\* C4 (delete of an absent key): on a tree that satisfies the shape invariants
\* and does not hold k, delete(k) returns absent, changes the answer of no
\* search and leaves a tree that satisfies the shape invariants.
C4_DeleteAbsentNoOp ==
    (last.op = "delete" /\ WellFormed(pre) /\ BTreeSearch(pre, last.key) = Absent) =>
        /\ ~panicked
        /\ last.ret = None
        /\ \A k \in PlainKeys : BTreeSearch(root, k) = BTreeSearch(pre, k)
        /\ WellFormed(root)

\* C5 (idempotent insert): insert(k, v2) on a tree where search(k) answers v1
\* returns, leaves every search answering as before (search(k) still v1) and
\* adds no entry for k.
C5_IdempotentInsert ==
    (last.op = "insert" /\ BTreeSearch(pre, last.key).ok
                        /\ BTreeSearch(pre, last.key).ret # None) =>
        /\ ~panicked
        /\ \A k \in PlainKeys : BTreeSearch(root, k) = BTreeSearch(pre, k)
        /\ KeyCount(root, last.key) = KeyCount(pre, last.key)

\* C6 (the Index never fails): no insert, delete or search call panics.
C6_IndexNeverFails == ~panicked

\* the keys a search may ask a store for: the keys of the callers and of the
\* earlier log, and the texts a record can hold for them
AskedKeys ==
    LET ks == KeysUpTo(LogKeys) \cup KeysUpTo(2 * B - 1)
    IN  ks \cup UNION { DebugKey(k) : k \in ks }

\* two BTrees answer every search alike
SameAnswers(a, b) == \A k \in AskedKeys : BTreeSearch(a, k) = BTreeSearch(b, k)

\* the keys a BTree holds
StoredKeys(rt) ==
    IF rt = None THEN {}
    ELSE LET ks == SubtreeKeys(rt[1]) IN { ks[i] : i \in 1..Len(ks) }

\* the complete snapshot of a BTree: the records of its in-order traversal
Snapshot(rt) == Records(traverse(rt))

\* C7 (log round-trip): a LogManager opened on the log that a fresh
\* LogManager left after insert and delete calls, without shutdown, answers
\* every search as the Index of that LogManager did when it was closed.
C7_LogRoundTrip ==
    (last.op = "open" /\ ended.any /\ ended.fresh /\ ended.shut = 0
                     /\ ended.pc = "idle" /\ ~ended.panic) =>
        up /\ SameAnswers(root, mem)

\* C8 (compaction round-trip): a LogManager opened on the log that a
\* LogManager left after insert and delete calls and then one shutdown()
\* answers every search as the Index of that LogManager did at the shutdown.
C8_CompactionRoundTrip ==
    (last.op = "open" /\ ended.any /\ ended.shut = 1 /\ ~ended.after
                     /\ ended.pc = "idle" /\ ~ended.panic) =>
        up /\ SameAnswers(root, mem)

\* C9 (the log after shutdown): when shutdown() has returned, the log holds
\* INSERT records only, as many as the Index holds distinct keys, each of a
\* key the Index holds with the value search answers for it, in strictly
\* ascending key order.
C9_SnapshotLog ==
    (up /\ last.op = "shutdown" /\ last.ret = Some(0)) =>
        LET lines == Lines(files[LOG_FILE].data)
            toks  == [i \in 1..Len(lines) |-> Tokens(lines[i])]
        IN  /\ Len(lines) = Cardinality(StoredKeys(root))
            /\ \A i \in 1..Len(lines) :
                   /\ Len(toks[i]) = 3
                   /\ toks[i][1] = TokINSERT
                   /\ toks[i][2] \in StoredKeys(root)
                   /\ ParseValue(toks[i][3]).ok
                   /\ BTreeSearch(root, toks[i][2]) = Found(ParseValue(toks[i][3]).value)
            /\ \A i \in 1..(Len(lines) - 1) : KeyLt(toks[i][2], toks[i + 1][2])

\* C10 (compaction is crash-atomic): at every step of shutdown() the log is
\* there and is the complete old log or the complete snapshot, and a
\* LogManager opened after a crash inside shutdown() answers every search as
\* the Index did when shutdown() was called.
C10_CrashAtomic ==
    /\ (up /\ pc # "idle") =>
           /\ files[LOG_FILE].present
           /\ files[LOG_FILE].data \in {oldlog, Snapshot(root)}
    /\ (last.op = "open" /\ ended.any /\ ended.pc # "idle") =>
           up /\ SameAnswers(root, mem)

\* s is what t begins with
IsPrefix(s, t) == Len(s) <= Len(t) /\ Take(t, Len(s)) = s

\* a step in which an insert or delete call on a LogManager returns
CallReturns == up /\ pc = "idle" /\ up' /\ last'.op \in {"insert", "delete"}

\* a LogManager was opened on the log left by one that returned from calls
\* made after its shutdown()
OpenedAfterLateCalls ==
    last.op = "open" /\ ended.any /\ ended.shut > 0 /\ ended.after
                     /\ ended.pc = "idle" /\ ~ended.panic

\* C11 (append after shutdown): a call that returns on a LogManager whose
\* shutdown() has returned leaves the bytes of the log as they were and adds
\* its record after them, and a LogManager opened on the log that such a
\* LogManager left answers every search as its Index did.
C11_AppendAfterShutdown ==
    [][/\ (CallReturns /\ sess.shut > 0) =>
             /\ IsPrefix(files[LOG_FILE].data, files'[LOG_FILE].data)
             /\ Len(files'[LOG_FILE].data) > Len(files[LOG_FILE].data)
       /\ OpenedAfterLateCalls' => (up /\ SameAnswers(root, mem))']_vars

\* C12 (fresh temporary file): from the rename on, and when shutdown() has
\* returned, the log holds exactly the records of the in-order traversal of
\* the Index, whatever temp_log.txt held before.
C12_FreshTempFile ==
    (up /\ (pc \in {"renamed", "reopened"}
            \/ (last.op = "shutdown" /\ last.ret = Some(0))))
        => files[LOG_FILE].data = Snapshot(root)

\* what a step appended to the log
Appended == Drop(files'[LOG_FILE].data, Len(files[LOG_FILE].data))

\* x is one record of the call
IsRecordOf(x, call) ==
    /\ x # <<>> /\ x[Len(x)] = CharNL
    /\ Len(Lines(x)) = 1
    /\ LET toks == Tokens(Lines(x)[1])
       IN  IF call.op = "insert"
           THEN toks = <<TokINSERT, DisplayKey(call.key), DisplayValue(call.value)>>
           ELSE Len(toks) = 2 /\ toks[1] = TokDELETE

\* the Index that a call leaves when it returns
IndexAfter(rt, call) ==
    IF call.op = "insert" THEN BTreeInsert(rt, call.key, call.value).root
    ELSE BTreeDelete(rt, call.key).root

\* C13 (normal write path): before the first shutdown(), a call that returns
\* has changed the Index and leaves the bytes the log held as they were,
\* followed by exactly one record of that call, also when it inserts a stored
\* key or deletes an absent one; a LogManager that goes away between calls or
\* in a call leaves the log as the completed calls made it.
C13_NormalWritePath ==
    [][/\ (CallReturns /\ sess.shut = 0) =>
             /\ IsPrefix(files[LOG_FILE].data, files'[LOG_FILE].data)
             /\ IsRecordOf(Appended, last')
             /\ root' = IndexAfter(root, last')
             /\ \A p \in Paths \ {LOG_FILE} : files'[p] = files[p]
       /\ (up /\ pc = "idle" /\ sess.shut = 0 /\ ~up') => files' = files]_vars

\* C13 witness: a LogManager opened on the log of an earlier run has returned
\* from two calls, the last one an insert of a key that was stored, and the
\* log holds the records of the earlier run and two more.
C13_Witness ==
    /\ up /\ pc = "idle" /\ sess.shut = 0 /\ ~sess.fresh
    /\ last.op = "insert" /\ nops = 2
    /\ IsPrefix(SeedLog, files[LOG_FILE].data)
    /\ Len(Lines(files[LOG_FILE].data)) = 2 * B - 1 + 2

\* a step in which LogManager::new runs
OpenRuns == ~up /\ opens' = opens + 1

\* the LogManager that a step returns, if it does, holds the Index that the
\* replay r produced
ReplayedIndex(r) == up' => (r.ok /\ root' = r.root)

\* C14 (replay does not write): LogManager::new on an existing log leaves the
\* bytes of the log and the other files as they were, and the Index of the
\* LogManager it returns is the one that the records of the log, applied in
\* their order to an empty Index, produce.
C14_ReplayDoesNotWrite ==
    [][(OpenRuns /\ files[LOG_FILE].present) =>
           /\ files' = files
           /\ ReplayedIndex(recover_state(files[LOG_FILE].data))]_vars

\* C14 witness: a LogManager was opened on the log of an earlier run with the
\* records of two more calls after it, and its Index holds keys.
C14_Witness ==
    /\ up /\ last.op = "open" /\ opens >= 2
    /\ Len(Lines(files[LOG_FILE].data)) = 2 * B - 1 + 2
    /\ StoredKeys(root) # {}

\* the tokens toks of a line are not those of a record
MalformedTokens(toks) ==
        /\ toks # <<>>
        /\ \/ toks[1] \notin {TokINSERT, TokDELETE}
           \/ toks[1] = TokINSERT /\ Len(toks) < 3
           \/ toks[1] = TokDELETE /\ Len(toks) < 2
           \/ toks[1] = TokINSERT /\ Len(toks) >= 3
                                  /\ (~ParseKey(toks[2]).ok \/ ~ParseValue(toks[3]).ok)

\* a line that is malformed: it is not text (UTF-8), or its leading token is
\* neither INSERT nor DELETE, or a key or value field is missing, or the value
\* text is not an i32 (the text of a String key always parses)
MalformedLine(line) == ~ValidUtf8(line) \/ MalformedTokens(Tokens(line))

\* one of the lines is malformed
AnyMalformed(lines) == \E i \in 1..Len(lines) : MalformedLine(lines[i])

\* the log holds a malformed line
MalformedLog == AnyMalformed(Lines(files[LOG_FILE].data))

\* C15 (a malformed record is fatal at open): LogManager::new on a log that
\* holds a malformed line returns no LogManager.
C15_MalformedIsFatal ==
    (last.op = "open" /\ MalformedLog) => (~up /\ panicked)

\* C15 witness: LogManager::new has failed on a log whose second line is
\* malformed, between two well-formed records.
C15_Witness ==
    /\ last.op = "open" /\ ~up
    /\ Len(Lines(files[LOG_FILE].data)) = 3
    /\ ~MalformedLine(Lines(files[LOG_FILE].data)[1])
    /\ MalformedLine(Lines(files[LOG_FILE].data)[2])
    /\ ~MalformedLine(Lines(files[LOG_FILE].data)[3])

\* a BTree insert or delete has returned and left a tree with a root node
AfterUpdate == last.op \in {"insert", "delete"} /\ ~panicked /\ root # None

\* C16 (uniqueness invariant): after every BTree insert or delete returns,
\* each key is stored at most once in the whole tree.
C16_Uniqueness == AfterUpdate => UniqueOK(root[1])

\* C17 (order invariant): after every BTree insert or delete returns, the
\* keys of every node are strictly ascending.
C17_Order == AfterUpdate => \A n \in NodesOf(root[1]) : OrderOK(n)

\* C18 (node-shape invariant): after every BTree insert or delete returns,
\* every node has as many values as keys and is a leaf without children or an
\* internal node with one child more than it has keys.
C18_NodeShape == AfterUpdate => \A n \in NodesOf(root[1]) : NodeShapeOK(n)

\* C19 (navigation invariant): after every BTree insert or delete returns,
\* every key in the subtree of child i of a node is greater than the key before
\* that child and less than the key after it.
C19_Navigation == AfterUpdate => \A n \in NodesOf(root[1]) : NavigationOK(n)

\* C20 (occupancy invariant): after every BTree insert or delete returns,
\* every node but the root holds between B - 1 and 2B - 1 keys and the root
\* holds at most 2B - 1 keys.
C20_Occupancy ==
    AfterUpdate =>
        /\ \A n \in NodesOf(root[1]) \ {root[1]} :
               Len(n.keys) >= B - 1 /\ Len(n.keys) <= 2 * B - 1
        /\ Len(root[1].keys) <= 2 * B - 1

\* the depths of the leaves of a tree
Depths(rt) == IF rt = None THEN {} ELSE LeafDepths(rt[1], 0)

\* C21 (balance invariant): after every BTree insert or delete returns, all
\* leaves of the tree are at the same depth.
C21_Balance == AfterUpdate => Cardinality(Depths(root)) = 1

\* the nodes split_child can be called on in a tree: its nodes, and the new
\* root that BTree::insert puts over a full root (btree.rs:94-95)
SplitParents(rt) ==
    IF rt = None THEN {}
    ELSE NodesOf(rt[1]) \cup {[NewNode EXCEPT !.children = <<rt[1]>>]}

\* s is what the claim says split_child(i) makes of self, whose child c at
\* index i holds 2B - 1 keys
SplitChildPost(self, i, c, s) ==
    /\ s.ok
    /\ s.node.keys = VecInsert(self.keys, i, c.keys[B])
    /\ s.node.values = VecInsert(self.values, i, c.values[B])
    /\ Len(s.node.children) = Len(self.children) + 1
    /\ \A j \in 1..Len(self.children) :
           /\ j < i + 1 => s.node.children[j] = self.children[j]
           /\ j > i + 1 => s.node.children[j + 1] = self.children[j]
    /\ s.node.children[i + 1] =
           [keys     |-> Take(c.keys, B - 1),
            values   |-> Take(c.values, B - 1),
            children |-> IF c.children = <<>> THEN <<>> ELSE Take(c.children, B)]
    /\ s.node.children[i + 2] =
           [keys     |-> Drop(c.keys, B),
            values   |-> Drop(c.values, B),
            children |-> IF c.children = <<>> THEN <<>> ELSE Drop(c.children, B)]

\* C22 (split_child postcondition): split_child(i) on a node whose child c at
\* index i holds 2B - 1 keys leaves c with its first B - 1 keys (and first B
\* children), puts the last B - 1 keys (and last B children) in a new node at
\* index i + 1, and the middle entry of c at index i of the node and in
\* neither of the two.
C22_SplitChild ==
    \A self \in SplitParents(root) :
        \A i \in 0..(Len(self.children) - 1) :
            Len(self.children[i + 1].keys) = 2 * B - 1 =>
                SplitChildPost(self, i, self.children[i + 1], split_child(self, i))

\* the last element of a sequence, and a sequence without it
Last(s) == s[Len(s)]
Front(s) == Take(s, Len(s) - 1)

\* Node::delete case 3b borrows for children[i] of self from its left sibling
\* (btree.rs:328-332), and from its right sibling (btree.rs:333-336)
BorrowsLeft(self, i) ==
    /\ i >= 1 /\ i < Len(self.children) /\ i <= Len(self.keys)
    /\ Len(self.children[i + 1].keys) < B
    /\ Len(self.children[i].keys) >= B
BorrowsRight(self, i) ==
    /\ i + 1 < Len(self.children) /\ i + 1 <= Len(self.keys)
    /\ Len(self.children[i + 1].keys) < B
    /\ ~(i >= 1 /\ Len(self.children[i].keys) >= B)
    /\ Len(self.children[i + 2].keys) >= B

\* s is the rotation the claim describes, from the left sibling l through the
\* separator into c, the child at index i of self
BorrowLeftPost(self, i, l, c, s) ==
    /\ s.ok
    /\ s.node.keys = [self.keys EXCEPT ![i] = Last(l.keys)]
    /\ s.node.values = [self.values EXCEPT ![i] = Last(l.values)]
    /\ s.node.children =
           [self.children EXCEPT
               ![i] = [keys     |-> Front(l.keys),
                       values   |-> Front(l.values),
                       children |-> IF l.children = <<>> THEN <<>>
                                    ELSE Front(l.children)],
               ![i + 1] = [keys     |-> <<self.keys[i]>> \o c.keys,
                           values   |-> <<self.values[i]>> \o c.values,
                           children |-> IF l.children = <<>> THEN c.children
                                        ELSE <<Last(l.children)>> \o c.children]]

\* s is the rotation the claim describes, from the right sibling r through the
\* separator into c, the child at index i of self
BorrowRightPost(self, i, c, r, s) ==
    /\ s.ok
    /\ s.node.keys = [self.keys EXCEPT ![i + 1] = r.keys[1]]
    /\ s.node.values = [self.values EXCEPT ![i + 1] = r.values[1]]
    /\ s.node.children =
           [self.children EXCEPT
               ![i + 1] = [keys     |-> Append(c.keys, self.keys[i + 1]),
                           values   |-> Append(c.values, self.values[i + 1]),
                           children |-> IF r.children = <<>> THEN c.children
                                        ELSE Append(c.children, r.children[1])],
               ![i + 2] = [keys     |-> Tail(r.keys),
                           values   |-> Tail(r.values),
                           children |-> IF r.children = <<>> THEN <<>>
                                        ELSE Tail(r.children)]]

\* C23 (borrow postcondition): where delete borrows for a child with fewer
\* than B keys from a sibling with at least B keys, the separator between the
\* two moves down into the child, the sibling's adjacent extreme entry moves up
\* in its place and the sibling's adjacent extreme child moves into the child:
\* the child gains a key, the sibling loses one, the parent keeps its number of
\* keys and children.
C23_Borrow ==
    root # None =>
        \A self \in NodesOf(root[1]) :
            \A i \in 0..(Len(self.children) - 1) :
                /\ BorrowsLeft(self, i) =>
                       BorrowLeftPost(self, i, self.children[i], self.children[i + 1],
                                      borrow_from_left(self, i))
                /\ BorrowsRight(self, i) =>
                       BorrowRightPost(self, i, self.children[i + 1],
                                       self.children[i + 2], borrow_from_right(self, i))

\* delete can merge children[j] and children[j + 1] of self: each holds B - 1
\* keys and an entry of self stands between them
Mergeable(self, j) ==
    /\ j + 1 < Len(self.children) /\ j < Len(self.keys) /\ j < Len(self.values)
    /\ Len(self.children[j + 1].keys) = B - 1
    /\ Len(self.children[j + 2].keys) = B - 1

\* s is the merge the claim describes of children[j] = l and children[j + 1] = r
\* of self
MergePost(self, j, l, r, s) ==
    /\ s.ok
    /\ s.node.keys = VecRemove(self.keys, j)
    /\ s.node.values = VecRemove(self.values, j)
    /\ s.node.children =
           VecRemove([self.children EXCEPT
                         ![j + 1] = [keys     |-> Append(l.keys, self.keys[j + 1]) \o r.keys,
                                     values   |-> Append(l.values, self.values[j + 1])
                                                      \o r.values,
                                     children |-> l.children \o r.children]],
                     j + 1)
    /\ Len(s.node.children[j + 1].keys) = 2 * B - 1

\* C24 (merge postcondition): where delete merges two adjacent children that
\* each hold B - 1 keys, by merge_with_left (cases 2c and 3b3) or, for the
\* first child, by merge_with_right (case 3b4), the left one ends with its
\* entries, the separating entry of the parent and the entries and children of
\* the right one, 2B - 1 keys, and the parent has lost that entry and the
\* right child.
C24_Merge ==
    root # None =>
        \A self \in NodesOf(root[1]) :
            \A j \in 0..(Len(self.children) - 2) :
                Mergeable(self, j) =>
                    /\ MergePost(self, j, self.children[j + 1], self.children[j + 2],
                                 merge_with_left(self, j + 1))
                    /\ j = 0 =>
                           MergePost(self, j, self.children[j + 1], self.children[j + 2],
                                     merge_with_right(self, j))

\* the depth of a tree: the depth of its deepest leaf
Depth(rt) == CHOOSE d \in Depths(rt) : \A e \in Depths(rt) : e <= d

\* the keys search finds in a tree, with the values it answers
FoundIn(rt) ==
    { k \in KeysUpTo(TreeKeys + 1) : BTreeSearch(rt, k) # Absent }

\* C25 (height growth): an insert on a BTree with a root makes the tree one
\* level deeper if the root held 2B - 1 keys when it started, and then search
\* answers for every key that was found as it did before; any other insert
\* leaves the depth as it was.
C25_HeightGrowth ==
    (last.op = "insert" /\ ~panicked /\ pre # None) =>
        IF Len(pre[1].keys) = 2 * B - 1
        THEN /\ Depth(root) = Depth(pre) + 1
             /\ \A k \in FoundIn(pre) : BTreeSearch(root, k) = BTreeSearch(pre, k)
        ELSE Depth(root) = Depth(pre)

\* C26 (root collapse): after every BTree delete returns, the root is not a
\* node without keys: a root that the delete left without keys has given way
\* to its only child, or, if it had no children, the tree has no root.
C26_RootCollapse ==
    (last.op = "delete" /\ ~panicked /\ root # None) => root[1].keys # <<>>

====
